---- MODULE Spec2Model ----
(***************************************************************************)
(* A model of intent-kit: the ValidationResult-returning validator and the *)
(* scale-only recommendation of the editor extension (validateIntent,      *)
(* generateStackRecommendation) and the keyword-aware StackSelector of the *)
(* core library (selectStack).                                             *)
(*                                                                         *)
(* Strings are TLA+ strings; the regular expressions of the source are     *)
(* alternations of literal words and are modelled by case-insensitive      *)
(* substring search over the characters of the string.                     *)
(***************************************************************************)
EXTENDS Integers, Sequences, FiniteSets, TLC

VARIABLES
    intent,          \* the Intent object handed to the operations
    validations,     \* the ValidationResults returned so far for intent, oldest first
    recommendation,  \* the StackRecommendation returned for intent, or NoValue
    stack,           \* the Stack returned by selectStack for intent, or NoValue
    considerationsTable,  \* the arrays held by the module-level ARCHITECTURE_CONSIDERATIONS
    returned,        \* the values returned by the calls so far, as they were at their return
    templateRegistry,  \* the Generator's templates: template name -> template text
    disk,            \* the file system: its directories, its files and the paths it refuses
    generated,       \* the GenerateResult returned by generate, or NoValue
    registrations,   \* the text of the caller's latest registerTemplate call for each name
    document,        \* the text handed to a parser, or NoValue
    parsed,          \* the parser called with document and what it returned or threw, or NoValue
    invocation,      \* the command line the CLI was started with, or NoValue
    exitCode         \* the exit code of the CLI process once the command has run, or NoValue

vars == <<intent, validations, recommendation, stack, considerationsTable, returned,
          templateRegistry, disk, generated, registrations,
          document, parsed, invocation, exitCode>>

\* the state that validateIntent and selectStack neither read nor write
sharedVars == <<considerationsTable, returned>>

\* the state of the Generator, of its caller and of the file system it writes to
generatorVars == <<templateRegistry, disk, generated, registrations>>

\* the state of the parsers and of the command line
frontEndVars == <<document, parsed, invocation, exitCode>>

(***************************************************************************)
(* Bounds of the model.                                                    *)
(***************************************************************************)
MaxReqs == 2    \* longest requirements array
MaxCalls == 2   \* validateIntent calls on one intent
MaxLangs == 2   \* longest constraints.languages array
MaxPushes == 1  \* elements a caller appends to one returned array

\* "no value has been returned yet"
NoValue == [type |-> "none"]

(***************************************************************************)
(* JavaScript values, as far as the validator can tell them apart.         *)
(***************************************************************************)
Undefined == [type |-> "undefined"]
Str(s) == [type |-> "string", value |-> s]
Num(n) == [type |-> "number", num |-> n]
Arr(items) == [type |-> "array", items |-> items]

\* typeof v === 'string'
IsString(v) == v.type = "string"

\* !v is false
Truthy(v) ==
    CASE v.type = "undefined" -> FALSE
      [] v.type = "string" -> v.value # ""
      [] v.type = "number" -> v.num # 0
      [] v.type = "null" -> FALSE
      [] OTHER -> TRUE

(***************************************************************************)
(* String functions.                                                       *)
(***************************************************************************)
CharAt(s, i) == SubSeq(s, i, i)

IsWhiteSpace(c) == c \in {" ", "\t", "\n"}

RECURSIVE TrimStart(_)
TrimStart(s) ==
    IF s = "" THEN ""
    ELSE IF IsWhiteSpace(CharAt(s, 1)) THEN TrimStart(SubSeq(s, 2, Len(s)))
    ELSE s

RECURSIVE TrimEnd(_)
TrimEnd(s) ==
    IF s = "" THEN ""
    ELSE IF IsWhiteSpace(CharAt(s, Len(s))) THEN TrimEnd(SubSeq(s, 1, Len(s) - 1))
    ELSE s

\* String.prototype.trim
trim(s) == TrimEnd(TrimStart(s))

UpperCase == "ABCDEFGHIJKLMNOPQRSTUVWXYZ"
LowerCase == "abcdefghijklmnopqrstuvwxyz"

LowerOf ==
    [c \in {CharAt(UpperCase, k) : k \in 1..Len(UpperCase)} |->
        CharAt(LowerCase, CHOOSE k \in 1..Len(UpperCase) : CharAt(UpperCase, k) = c)]

LowerChar(c) == IF c \in DOMAIN LowerOf THEN LowerOf[c] ELSE c

\* String.prototype.toLowerCase
RECURSIVE toLowerCase(_)
toLowerCase(s) ==
    IF s = "" THEN ""
    ELSE LowerChar(CharAt(s, 1)) \o toLowerCase(SubSeq(s, 2, Len(s)))

\* String.prototype.includes
includes(s, word) ==
    \E i \in 1..(Len(s) - Len(word) + 1) : SubSeq(s, i, i + Len(word) - 1) = word

\* /w1|w2|.../i.test(s) for literal alternatives
test(words, s) ==
    LET lower == toLowerCase(s)
    IN  \E w \in words : includes(lower, w)

\* Array.prototype.join
RECURSIVE join(_, _)
join(seq, sep) ==
    IF seq = <<>> THEN ""
    ELSE IF Len(seq) = 1 THEN seq[1]
    ELSE seq[1] \o sep \o join(Tail(seq), sep)

\* the number of elements of the array that equal x
Occurrences(seq, x) == Cardinality({k \in DOMAIN seq : seq[k] = x})

\* requirements.some(req => /w1|w2|.../i.test(req))
someMatch(requirements, words) == \E k \in DOMAIN requirements : test(words, requirements[k])

(***************************************************************************)
(* The validator of the extension and of the ValidationResult core.        *)
(***************************************************************************)
VALID_SCALE_LEVELS == <<"solo", "startup", "team", "enterprise">>

NameMessage == "Intent must have a non-empty name"
ScaleMessage == "Scale level must be one of: " \o join(VALID_SCALE_LEVELS, ", ")
EmptyRequirementsMessage == "Intent must have a non-empty requirements array"
InvalidRequirementsMessage == "All requirements must be non-empty strings"

\* a module-level errors array that every call appends to
NewErrors_shared ==
    IF validations = <<>> THEN <<>> ELSE validations[Len(validations)].errors

\* const errors: string[] = []
NewErrors == <<>>

\* Validate name
nameErrors(i, errors) ==
    IF ~Truthy(i.name) \/ ~IsString(i.name) \/ trim(i.name.value) = ""
    THEN Append(errors, NameMessage)
    ELSE errors

\* VALID_SCALE_LEVELS.includes(v)
IsValidScaleLevel(v) ==
    \E k \in DOMAIN VALID_SCALE_LEVELS : IsString(v) /\ v.value = VALID_SCALE_LEVELS[k]

\* Validate scale level
scaleErrors(i, errors) ==
    IF ~IsValidScaleLevel(i.scaleLevel)
    THEN Append(errors, ScaleMessage)
    ELSE errors

\* req => typeof req !== 'string' || req.trim() === ''
IsInvalidRequirement(req) == ~IsString(req) \/ trim(req.value) = ""

\* requirements.filter(req => typeof req !== 'string' || req.trim() === '')
filterInvalid(requirements) == SelectSeq(requirements, IsInvalidRequirement)

\* one message for each invalid element
requirementsErrors_perElement(i, errors) ==
    IF i.requirements.type # "array" \/ Len(i.requirements.items) = 0
    THEN Append(errors, EmptyRequirementsMessage)
    ELSE LET invalidRequirements == filterInvalid(i.requirements.items)
         IN  errors \o [k \in 1..Len(invalidRequirements) |-> InvalidRequirementsMessage]

\* Validate requirements
requirementsErrors(i, errors) ==
    IF i.requirements.type # "array" \/ Len(i.requirements.items) = 0
    THEN Append(errors, EmptyRequirementsMessage)
    ELSE LET invalidRequirements == filterInvalid(i.requirements.items)
         IN  IF Len(invalidRequirements) > 0
             THEN Append(errors, InvalidRequirementsMessage)
             ELSE errors

\* a validator that returns at the first failing check
validateIntent_firstFailure(i) ==
    LET afterName == nameErrors(i, NewErrors)
        afterScale == scaleErrors(i, afterName)
        errors == IF afterName # <<>> THEN afterName
                  ELSE IF afterScale # <<>> THEN afterScale
                  ELSE requirementsErrors(i, afterScale)
    IN  [valid |-> Len(errors) = 0, errors |-> errors]

validateIntent(i) ==
    LET errors == requirementsErrors(i, scaleErrors(i, nameErrors(i, NewErrors)))
    IN  [valid |-> Len(errors) = 0, errors |-> errors]

(***************************************************************************)
(* The scale-only recommendation (generateStackRecommendation).            *)
(***************************************************************************)
\* scale levels that map to another architecture
SCALE_ARCHITECTURE_MAP_teamAsMicroservices ==
    [solo |-> Str("monolith"), startup |-> Str("monolith"),
     team |-> Str("microservices"), enterprise |-> Str("microservices")]

SCALE_ARCHITECTURE_MAP ==
    [solo |-> Str("monolith"), startup |-> Str("monolith"),
     team |-> Str("modular-monolith"), enterprise |-> Str("microservices")]

ARCHITECTURE_RATIONALE ==
    [monolith |-> Str("A monolithic architecture is simpler to develop, deploy, and maintain for smaller teams."),
     microservices |-> Str("Microservices enable independent scaling and deployment, suitable for large teams and complex domains.")]
    @@ ("modular-monolith" :> Str("A modular monolith provides clear boundaries while maintaining deployment simplicity for growing teams."))

ARCHITECTURE_CONSIDERATIONS ==
    [monolith |-> Arr(<<"Keep code modular for future migration",
                        "Use dependency injection for testability",
                        "Consider database per module patterns">>),
     microservices |-> Arr(<<"Invest in infrastructure automation",
                             "Implement service discovery and load balancing",
                             "Consider distributed tracing and observability">>)]
    @@ ("modular-monolith" :> Arr(<<"Define clear module boundaries",
                                    "Use internal APIs between modules",
                                    "Plan for potential service extraction">>))

\* table[key] of an object used as a table: undefined for a missing key
Lookup(table, key) ==
    IF IsString(key) /\ key.value \in DOMAIN table THEN table[key.value] ELSE Undefined

generateStackRecommendation(i) ==
    LET architecture == Lookup(SCALE_ARCHITECTURE_MAP, i.scaleLevel)
    IN  [architecture |-> architecture,
         rationale |-> Lookup(ARCHITECTURE_RATIONALE, architecture),
         considerations |-> Lookup(considerationsTable, architecture)]

(***************************************************************************)
(* The intents given to the extension's functions.                         *)
(***************************************************************************)
SeqsUpTo(S, n) == UNION {[1..k -> S] : k \in 0..n}

ExtensionNames == {Str("my-web-app"), Str(""), Str("  "), Undefined, Num(42)}
ExtensionScaleLevels ==
    {Str(VALID_SCALE_LEVELS[k]) : k \in DOMAIN VALID_SCALE_LEVELS} \cup {Str("invalid"), Undefined}
ExtensionRequirementItems == {Str("Build a REST API"), Str(""), Str(" \t"), Num(7)}
ExtensionRequirements ==
    {Undefined} \cup {Arr(items) : items \in SeqsUpTo(ExtensionRequirementItems, MaxReqs)}

ExtensionIntents ==
    [name : ExtensionNames, scaleLevel : ExtensionScaleLevels, requirements : ExtensionRequirements]

(***************************************************************************)
(* The Generator after construction, and an empty file system.  The        *)
(* built-in templates are abridged to their first line and the lines that  *)
(* carry a variable; none of them has a conditional block.                 *)
(***************************************************************************)
registerBuiltInTemplates ==
    ("readme" :>
         "# {{intent.name}}\n{{stack.description}}\n- **Pattern**: {{stack.architecture}}\n- **Scale**: {{intent.scale}}\n{{intent.requirements}}\n")
    @@ ("gitignore" :> "# Dependencies\nnode_modules/\n")
    @@ ("docker-compose" :> "version: '3.8'\n      - POSTGRES_DB={{intent.name}}\n")
    @@ ("dockerfile" :> "FROM node:20-alpine\n")

EmptyDisk == [dirs |-> {}, files |-> <<>>, denied |-> {}]

(***************************************************************************)
(* The extension: an intent is created, then validated and given a         *)
(* recommendation.                                                         *)
(***************************************************************************)
Init ==
    /\ intent \in ExtensionIntents
    /\ validations = <<>>
    /\ recommendation = NoValue
    /\ stack = NoValue
    /\ considerationsTable = ARCHITECTURE_CONSIDERATIONS
    /\ returned = <<>>
    /\ templateRegistry = registerBuiltInTemplates
    /\ disk = EmptyDisk
    /\ generated = NoValue
    /\ registrations = <<>>
    /\ document = NoValue
    /\ parsed = NoValue
    /\ invocation = NoValue
    /\ exitCode = NoValue

\* validateIntent(intent)
Validate ==
    /\ Len(validations) < MaxCalls
    /\ validations' = Append(validations, validateIntent(intent))
    /\ UNCHANGED <<intent, recommendation, stack, sharedVars, generatorVars, frontEndVars>>

\* generateStackRecommendation(intent)
Recommend ==
    /\ recommendation = NoValue
    /\ recommendation' = generateStackRecommendation(intent)
    /\ UNCHANGED <<intent, validations, stack, sharedVars, generatorVars, frontEndVars>>

Next == Validate \/ Recommend

Spec == Init /\ [][Next]_vars

(***************************************************************************)
(* The keyword-aware StackSelector of the core library.                    *)
(***************************************************************************)
\* the pattern without its last alternative: /serverless|lambda/i
ServerlessWords_noFunction == {"serverless", "lambda"}
ServerlessWords == {"serverless", "lambda", "function"}         \* /serverless|lambda|function/i
StaticWords == {"static", "jamstack", "blog", "documentation"}  \* /static|jamstack|blog|documentation/i
\* the pattern without its optional hyphen: /realtime|websocket|chat/i
RealtimeWords_noHyphen == {"realtime", "websocket", "chat"}

RealtimeWords == {"realtime", "real-time", "websocket", "chat"} \* /real-?time|websocket|chat/i
MobileWords == {"mobile", "ios", "android", "react native"}     \* /mobile|ios|android|react native/i
FrontendWords == {"frontend", "web", "ui", "interface"}         \* /frontend|web|ui|interface/i
DatabaseWords == {"database", "storage", "persist"}             \* /database|storage|persist/i
NoSqlWords == {"flexible schema", "unstructured", "document"}   \* /flexible schema|unstructured|document/i

\* the static-site check placed before the serverless check
selectArchitecture_staticFirst(i) ==
    IF someMatch(i.requirements, StaticWords) THEN "jamstack"
    ELSE IF someMatch(i.requirements, ServerlessWords) THEN "serverless"
    ELSE CASE i.scale \in {"solo", "startup"} -> "monolith"
           [] i.scale \in {"team", "enterprise"} -> "microservices"
           [] OTHER -> "monolith"

\* the static-site check applied to the small scales only
selectArchitecture_staticSmallOnly(i) ==
    IF someMatch(i.requirements, ServerlessWords) THEN "serverless"
    ELSE IF i.scale \in {"solo", "startup"} /\ someMatch(i.requirements, StaticWords)
    THEN "jamstack"
    ELSE CASE i.scale \in {"solo", "startup"} -> "monolith"
           [] i.scale \in {"team", "enterprise"} -> "microservices"
           [] OTHER -> "monolith"

\* the scale table of the scale-only classifier
selectArchitecture_scaleOnlyTable(i) ==
    IF someMatch(i.requirements, ServerlessWords) THEN "serverless"
    ELSE IF someMatch(i.requirements, StaticWords) THEN "jamstack"
    ELSE CASE i.scale \in {"solo", "startup"} -> "monolith"
           [] i.scale = "team" -> "modular-monolith"
           [] i.scale = "enterprise" -> "microservices"
           [] OTHER -> "monolith"

selectArchitecture(i) ==
    LET hasServerlessKeywords == someMatch(i.requirements, ServerlessWords)
        hasStaticKeywords == someMatch(i.requirements, StaticWords)
    IN  IF hasServerlessKeywords THEN "serverless"
        ELSE IF hasStaticKeywords THEN "jamstack"
        ELSE CASE i.scale \in {"solo", "startup"} -> "monolith"
               [] i.scale \in {"team", "enterprise"} -> "microservices"
               [] OTHER -> "monolith"

\* the first entry that names a supported language
preferredLang_firstSupported(i) ==
    IF i.constraints = Undefined THEN Undefined
    ELSE IF i.constraints.languages = Undefined THEN Undefined
    ELSE LET supported == SelectSeq(i.constraints.languages.items,
                                    LAMBDA l : l \in {"python", "go"})
         IN  IF supported = <<>> THEN Undefined ELSE Str(supported[1])

\* intent.constraints?.languages?.[0]
preferredLang(i) ==
    IF i.constraints = Undefined THEN Undefined
    ELSE IF i.constraints.languages = Undefined THEN Undefined
    ELSE IF i.constraints.languages.items = <<>> THEN Undefined
    ELSE Str(i.constraints.languages.items[1])

\* a backend for every architecture
selectBackend_always(i, architecture) ==
    IF preferredLang(i) = Str("python")
    THEN [language |-> "Python", framework |-> "FastAPI", runtime |-> "Python 3.11"]
    ELSE IF preferredLang(i) = Str("go")
    THEN [language |-> "Go", framework |-> "Gin", runtime |-> "Go 1.21"]
    ELSE [language |-> "TypeScript", framework |-> "Express", runtime |-> "Node.js 20"]

\* Backend selection
selectBackend(i, architecture) ==
    IF architecture # "jamstack"
    THEN IF preferredLang(i) = Str("python")
         THEN [language |-> "Python", framework |-> "FastAPI", runtime |-> "Python 3.11"]
         ELSE IF preferredLang(i) = Str("go")
         THEN [language |-> "Go", framework |-> "Gin", runtime |-> "Go 1.21"]
         ELSE [language |-> "TypeScript", framework |-> "Express", runtime |-> "Node.js 20"]
    ELSE Undefined

\* a frontend for a mobile keyword as well
selectFrontend_mobileToo(i) ==
    LET hasMobileReq == someMatch(i.requirements, MobileWords)
    IN  IF someMatch(i.requirements, FrontendWords) \/ hasMobileReq
        THEN [framework |-> IF hasMobileReq THEN "React Native" ELSE "React",
              language |-> "TypeScript", buildTool |-> "Vite"]
        ELSE Undefined

\* Frontend selection
selectFrontend(i) ==
    LET hasMobileReq == someMatch(i.requirements, MobileWords)
    IN  IF someMatch(i.requirements, FrontendWords)
        THEN [framework |-> IF hasMobileReq THEN "React Native" ELSE "React",
              language |-> "TypeScript", buildTool |-> "Vite"]
        ELSE Undefined

\* a database for a document keyword as well
selectDatabase_noSqlAlone(i) ==
    LET needsNoSql == someMatch(i.requirements, NoSqlWords)
    IN  IF someMatch(i.requirements, DatabaseWords) \/ needsNoSql
        THEN IF needsNoSql THEN [type |-> "nosql", engine |-> "MongoDB"]
             ELSE [type |-> "sql", engine |-> "PostgreSQL"]
        ELSE Undefined

\* Database selection
selectDatabase(i) ==
    IF someMatch(i.requirements, DatabaseWords)
    THEN LET needsNoSql == someMatch(i.requirements, NoSqlWords)
         IN  IF needsNoSql THEN [type |-> "nosql", engine |-> "MongoDB"]
             ELSE [type |-> "sql", engine |-> "PostgreSQL"]
    ELSE Undefined

\* a message queue for every microservices stack
selectMessaging_queueForMicroservices(i, architecture) ==
    LET hasRealtimeReq == someMatch(i.requirements, RealtimeWords)
        queue == architecture = "microservices"
    IN  IF hasRealtimeReq \/ architecture = "microservices"
        THEN [type |-> IF queue THEN "Message Queue" ELSE "WebSocket",
              provider |-> IF queue THEN "RabbitMQ" ELSE "Socket.io"]
        ELSE Undefined

\* Messaging for real-time or microservices
selectMessaging(i, architecture) ==
    LET hasRealtimeReq == someMatch(i.requirements, RealtimeWords)
    IN  IF hasRealtimeReq \/ architecture = "microservices"
        THEN [type |-> IF hasRealtimeReq THEN "WebSocket" ELSE "Message Queue",
              provider |-> IF hasRealtimeReq THEN "Socket.io" ELSE "RabbitMQ"]
        ELSE Undefined

selectTechnologies(i, architecture) ==
    [backend |-> selectBackend(i, architecture),
     frontend |-> selectFrontend(i),
     database |-> selectDatabase(i),
     messaging |-> selectMessaging(i, architecture)]

\* constraints.platforms?.includes(platform)
prefersPlatform(i, platform) ==
    /\ i.constraints # Undefined
    /\ i.constraints.platforms # Undefined
    /\ \E k \in DOMAIN i.constraints.platforms.items : i.constraints.platforms.items[k] = platform

\* an orchestration that follows the preferred platforms
selectInfrastructure_byPlatform(i) ==
    [containerization |-> "docker",
     orchestration |-> IF i.scale = "enterprise" \/ prefersPlatform(i, "kubernetes")
                       THEN "kubernetes" ELSE "docker-compose",
     cicd |-> "github-actions"]

selectInfrastructure(i) ==
    IF i.scale = "enterprise"
    THEN [containerization |-> "docker", orchestration |-> "kubernetes", cicd |-> "github-actions"]
    ELSE IF i.scale = "team"
    THEN [containerization |-> "docker", orchestration |-> "docker-compose", cicd |-> "github-actions"]
    ELSE [containerization |-> "docker", orchestration |-> "docker-compose", cicd |-> "github-actions"]

\* the monolith directories for every architecture but microservices
generateStructure_monolithByDefault(i, architecture) ==
    [directories |->
        <<"src", "tests", "docs">> \o
        (IF architecture = "microservices"
         THEN <<"services", "shared", "infrastructure">>
         ELSE <<"src/api", "src/models", "src/services", "src/utils">>),
     files |-> <<[path |-> "README.md", template |-> "readme"],
                 [path |-> ".gitignore", template |-> "gitignore"],
                 [path |-> "docker-compose.yml", template |-> "docker-compose"]>>]

generateStructure(i, architecture) ==
    LET base == <<"src", "tests", "docs">>
        directories ==
            IF architecture = "microservices"
            THEN base \o <<"services", "shared", "infrastructure">>
            ELSE IF architecture = "monolith"
            THEN base \o <<"src/api", "src/models", "src/services", "src/utils">>
            ELSE base
        files == <<[path |-> "README.md", template |-> "readme"],
                   [path |-> ".gitignore", template |-> "gitignore"],
                   [path |-> "docker-compose.yml", template |-> "docker-compose"]>>
    IN  [directories |-> directories, files |-> files]

selectStack(i) ==
    LET architecture == selectArchitecture(i)
        technologies == selectTechnologies(i, architecture)
        infrastructure == selectInfrastructure(i)
        structure == generateStructure(i, architecture)
    IN  [name |-> i.scale \o "-" \o architecture,
         description |-> architecture \o " architecture for " \o i.scale \o " scale",
         architecture |-> architecture,
         technologies |-> technologies,
         infrastructure |-> infrastructure,
         structure |-> structure]

(***************************************************************************)
(* The intents given to the StackSelector.                                 *)
(***************************************************************************)
ScaleLevel == {"solo", "startup", "team", "enterprise"}

CoreNames == {"chat-app"}
CoreRequirementItems ==
    {"AWS Lambda handlers", "Static documentation", "serverless blog", "web interface",
     "iOS and Android", "database storage", "real-time chat", "user authentication"}
CoreRequirements == SeqsUpTo(CoreRequirementItems, MaxReqs) \ {<<>>}
CoreLanguages == {"python", "go", "java"}
CorePlatforms == {Undefined, Arr(<<"kubernetes">>)}
CoreBudgetLevels == {Undefined, Str("minimal"), Str("flexible")}

Constraints(languages, platforms, budgetLevel) ==
    [languages |-> languages, platforms |-> platforms, budgetLevel |-> budgetLevel]

\* no constraints; constraints that name languages; constraints that name
\* platforms or a budget level
CoreConstraints ==
    {Undefined}
    \cup {Constraints(Arr(items), Undefined, Undefined) : items \in SeqsUpTo(CoreLanguages, MaxLangs)}
    \cup {Constraints(Undefined, p, b) : p \in CorePlatforms, b \in CoreBudgetLevels}

\* the chat application of IMPLEMENTATION_SUMMARY.md
ChatAppIntent ==
    [name |-> "chat-app", scale |-> "startup",
     requirements |-> <<"real-time messaging", "user authentication",
                        "mobile-friendly interface", "database for message history">>,
     features |-> Undefined, constraints |-> Undefined]

\* the e-commerce platform of README.md
ECommerceIntent ==
    [name |-> "e-commerce-platform", scale |-> "enterprise",
     requirements |-> <<"product catalog", "shopping cart", "payment processing",
                        "order management", "admin dashboard", "real-time inventory">>,
     features |-> Arr(<<"search and filtering", "recommendations", "multi-vendor support">>),
     constraints |-> Constraints(Undefined, Arr(<<"kubernetes">>), Str("flexible"))]

\* the enterprise intent of tests/stack.test.ts
ScalablePlatformIntent ==
    [name |-> "enterprise-project", scale |-> "enterprise",
     requirements |-> <<"Scalable platform", "Multiple teams">>,
     features |-> Undefined, constraints |-> Undefined]

\* createDefaultIntent(name)
createDefaultIntent(name) ==
    [name |-> name, scale |-> "solo",
     requirements |-> <<"Build a functional application">>,
     features |-> Undefined, constraints |-> Undefined]

\* project names given to createDefaultIntent
ProjectNames == {"my-app", "blog"}

CoreIntents ==
    [name : CoreNames, scale : ScaleLevel, requirements : CoreRequirements,
     features : {Undefined}, constraints : CoreConstraints]
    \cup {ChatAppIntent, ECommerceIntent, ScalablePlatformIntent}
    \cup {createDefaultIntent(name) : name \in ProjectNames}

(***************************************************************************)
(* The core library: selectStack is applied to an intent.                  *)
(***************************************************************************)
InitCore ==
    /\ intent \in CoreIntents
    /\ validations = <<>>
    /\ recommendation = NoValue
    /\ stack = NoValue
    /\ considerationsTable = ARCHITECTURE_CONSIDERATIONS
    /\ returned = <<>>
    /\ templateRegistry = registerBuiltInTemplates
    /\ disk = EmptyDisk
    /\ generated = NoValue
    /\ registrations = <<>>
    /\ document = NoValue
    /\ parsed = NoValue
    /\ invocation = NoValue
    /\ exitCode = NoValue

\* stackSelector.selectStack(intent)
SelectStack ==
    /\ stack = NoValue
    /\ stack' = selectStack(intent)
    /\ UNCHANGED <<intent, validations, recommendation, sharedVars, generatorVars, frontEndVars>>

NextCore == SelectStack

SpecCore == InitCore /\ [][NextCore]_vars

(***************************************************************************)
(* The values of the rendering context: the intent, the stack and the      *)
(* per-file overrides as JavaScript objects.                               *)
(***************************************************************************)
Null == [type |-> "null"]
Obj(fields) == [type |-> "object", fields |-> fields]

\* an array of strings, or undefined
StringArray(a) ==
    IF a = Undefined THEN Undefined
    ELSE Arr([k \in DOMAIN a.items |-> Str(a.items[k])])

\* an object whose properties are all strings, or undefined
StringObject(r) ==
    IF r = Undefined THEN Undefined
    ELSE Obj([f \in DOMAIN r |-> Str(r[f])])

IntentObject(i) ==
    Obj([name |-> Str(i.name),
         scale |-> Str(i.scale),
         requirements |-> Arr([k \in DOMAIN i.requirements |-> Str(i.requirements[k])]),
         features |-> StringArray(i.features),
         constraints |->
             IF i.constraints = Undefined THEN Undefined
             ELSE Obj([languages |-> StringArray(i.constraints.languages),
                       platforms |-> StringArray(i.constraints.platforms),
                       budgetLevel |-> i.constraints.budgetLevel])])

StackObject(st) ==
    Obj([name |-> Str(st.name),
         description |-> Str(st.description),
         architecture |-> Str(st.architecture),
         technologies |-> Obj([f \in DOMAIN st.technologies |-> StringObject(st.technologies[f])]),
         infrastructure |-> StringObject(st.infrastructure),
         structure |->
             Obj([directories |->
                      Arr([k \in DOMAIN st.structure.directories |->
                              Str(st.structure.directories[k])]),
                  files |->
                      Arr([k \in DOMAIN st.structure.files |->
                              Obj([path |-> Str(st.structure.files[k].path),
                                   template |-> Str(st.structure.files[k].template)])])])])

Digits == "0123456789"

\* the decimal numeral of a natural number
RECURSIVE NumberToString(_)
NumberToString(n) ==
    IF n < 10 THEN CharAt(Digits, n + 1)
    ELSE NumberToString(n \div 10) \o CharAt(Digits, (n % 10) + 1)

\* the array index that a property key denotes, or -1
RECURSIVE IndexOfKey(_)
IndexOfKey(key) ==
    IF key = "" THEN -1
    ELSE LET last == CharAt(key, Len(key))
             digit == IF \E d \in 1..10 : CharAt(Digits, d) = last
                      THEN (CHOOSE d \in 1..10 : CharAt(Digits, d) = last) - 1
                      ELSE -1
         IN  IF digit = -1 THEN -1
             ELSE IF Len(key) = 1 THEN digit
             ELSE IF CharAt(key, 1) = "0" THEN -1
             ELSE LET front == IndexOfKey(SubSeq(key, 1, Len(key) - 1))
                  IN  IF front = -1 THEN -1 ELSE front * 10 + digit

\* current?.[key], own properties only
GetProperty(current, key) ==
    CASE current.type = "object" ->
             IF key \in DOMAIN current.fields THEN current.fields[key] ELSE Undefined
      [] current.type = "array" ->
             IF key = "length" THEN Num(Len(current.items))
             ELSE IF IndexOfKey(key) + 1 \in DOMAIN current.items
             THEN current.items[IndexOfKey(key) + 1]
             ELSE Undefined
      [] current.type = "string" ->
             IF key = "length" THEN Num(Len(current.value))
             ELSE IF IndexOfKey(key) + 1 \in 1..Len(current.value)
             THEN Str(CharAt(current.value, IndexOfKey(key) + 1))
             ELSE Undefined
      [] OTHER -> Undefined

\* String(value)
RECURSIVE String(_)
String(value) ==
    CASE value.type = "string" -> value.value
      [] value.type = "number" -> NumberToString(value.num)
      [] value.type = "null" -> "null"
      [] value.type = "undefined" -> "undefined"
      [] value.type = "object" -> "[object Object]"
      [] value.type = "array" ->
             join([k \in DOMAIN value.items |->
                      IF value.items[k].type \in {"null", "undefined"} THEN ""
                      ELSE String(value.items[k])], ",")

(***************************************************************************)
(* The template engine.  Both passes scan the text from left to right;     *)
(* text produced by a replacement is not scanned again.                    *)
(***************************************************************************)
StartsWithAt(s, i, w) ==
    /\ i >= 1
    /\ i + Len(w) - 1 <= Len(s)
    /\ SubSeq(s, i, i + Len(w) - 1) = w

\* the first position at or after i where w starts, or 0
IndexOfFrom(s, w, i) ==
    LET hits == {j \in i..Len(s) : StartsWithAt(s, j, w)}
    IN  IF hits = {} THEN 0
        ELSE CHOOSE j \in hits : \A k \in hits : j <= k

IfOpen == "{{#if "
IfClose == "{{/if}}"

\* [^}]+ from position i: the position after the longest run without "}"
ConditionEnd(s, i) ==
    LET stops == {j \in i..Len(s) : CharAt(s, j) = "}"} \cup {Len(s) + 1}
    IN  CHOOSE j \in stops : \A k \in stops : j <= k

\* /\{\{#if [^}]+\}\}[\s\S]*?\{\{\/if\}\}/ at position i: the position of
\* the last character of the match, or 0 when there is no match at i
ConditionalBlockEnd(s, i) ==
    IF ~StartsWithAt(s, i, IfOpen) THEN 0
    ELSE LET c == i + Len(IfOpen)
             e == ConditionEnd(s, c)
         IN  IF e = c \/ ~StartsWithAt(s, e, "}}") THEN 0
             ELSE LET close == IndexOfFrom(s, IfClose, e + 2)
                  IN  IF close = 0 THEN 0 ELSE close + Len(IfClose) - 1

\* template.replace(/\{\{#if [^}]+\}\}[\s\S]*?\{\{\/if\}\}/g, '') from position i
RECURSIVE removeConditionals(_, _)
removeConditionals(s, i) ==
    LET open == IndexOfFrom(s, IfOpen, i)
    IN  IF open = 0 THEN SubSeq(s, i, Len(s))
        ELSE IF ConditionalBlockEnd(s, open) # 0
        THEN SubSeq(s, i, open - 1)
                 \o removeConditionals(s, ConditionalBlockEnd(s, open) + 1)
        ELSE SubSeq(s, i, open) \o removeConditionals(s, open + 1)

WordChars == "abcdefghijklmnopqrstuvwxyzABCDEFGHIJKLMNOPQRSTUVWXYZ0123456789_"

IsWordChar(c) == \E k \in 1..Len(WordChars) : CharAt(WordChars, k) = c

\* \w+ from position i: the position after the longest run of word characters
WordEnd(s, i) ==
    LET stops == {j \in i..Len(s) : ~IsWordChar(CharAt(s, j))} \cup {Len(s) + 1}
    IN  CHOOSE j \in stops : \A k \in stops : j <= k

\* \w+(?:\.\w+)* from position i: the position after the path, or i
RECURSIVE PathEnd(_, _)
PathEnd(s, i) ==
    LET w == WordEnd(s, i)
    IN  IF w = i THEN i
        ELSE IF w + 1 <= Len(s) /\ CharAt(s, w) = "." /\ IsWordChar(CharAt(s, w + 1))
        THEN PathEnd(s, w + 1)
        ELSE w

\* /\{\{(\w+(?:\.\w+)*)\}\}/ at position i: the position of the last
\* character of the match, or 0 when there is no match at i
VariableEnd(s, i) ==
    IF ~StartsWithAt(s, i, "{{") THEN 0
    ELSE LET e == PathEnd(s, i + 2)
         IN  IF e = i + 2 \/ ~StartsWithAt(s, e, "}}") THEN 0 ELSE e + 1

\* path.split('.')
RECURSIVE split(_)
split(path) ==
    LET dot == IndexOfFrom(path, ".", 1)
    IN  IF dot = 0 THEN <<path>>
        ELSE <<SubSeq(path, 1, dot - 1)>> \o split(SubSeq(path, dot + 1, Len(path)))

\* keys.reduce((current, key) => current?.[key], obj)
RECURSIVE reduce(_, _)
reduce(keys, current) ==
    IF keys = <<>> THEN current
    ELSE reduce(Tail(keys), GetProperty(current, Head(keys)))

getNestedValue(obj, path) == reduce(split(path), obj)

\* the replacement of one variable token
replaceVariable_blank(context, match, path) ==
    LET value == getNestedValue(context, path)
    IN  IF value # Undefined THEN String(value) ELSE ""

replaceVariable(context, match, path) ==
    LET value == getNestedValue(context, path)
    IN  IF value # Undefined THEN String(value) ELSE match

\* result.replace(/\{\{(\w+(?:\.\w+)*)\}\}/g, ...) from position i
RECURSIVE replaceVariables(_, _, _)
replaceVariables(s, i, context) ==
    LET open == IndexOfFrom(s, "{{", i)
        e == VariableEnd(s, open)
    IN  IF open = 0 THEN SubSeq(s, i, Len(s))
        ELSE IF e # 0
        THEN SubSeq(s, i, open - 1)
                 \o replaceVariable(context, SubSeq(s, open, e), SubSeq(s, open + 2, e - 2))
                 \o replaceVariables(s, e + 1, context)
        ELSE SubSeq(s, i, open) \o replaceVariables(s, open + 1, context)

simpleTemplateEngine_keepBlocks(template, context) ==
    replaceVariables(template, 1, context)

simpleTemplateEngine(template, context) ==
    replaceVariables(removeConditionals(template, 1), 1, context)

(***************************************************************************)
(* The file system as the Generator uses it.  A call of fs either succeeds *)
(* or throws; disk.denied holds the paths the system refuses to create or  *)
(* write (missing permission, read-only mount).                            *)
(***************************************************************************)
\* the position of the last "/" of a path, or 0
RECURSIVE LastSlash(_, _)
LastSlash(p, i) ==
    IF i = 0 THEN 0
    ELSE IF CharAt(p, i) = "/" THEN i
    ELSE LastSlash(p, i - 1)

\* path.dirname(p), for relative paths without a trailing "/"
dirname(p) ==
    IF LastSlash(p, Len(p)) = 0 THEN "."
    ELSE SubSeq(p, 1, LastSlash(p, Len(p)) - 1)

\* path.join(a, b), for normalized relative paths
pathJoin(a, b) == a \o "/" \o b

\* the directories above a path
RECURSIVE Ancestors(_)
Ancestors(p) ==
    IF dirname(p) = "." THEN {}
    ELSE {dirname(p)} \cup Ancestors(dirname(p))

\* fs.existsSync(p)
existsSync(d, p) == p \in d.dirs \/ p \in DOMAIN d.files

Returned(d) == [threw |-> FALSE, message |-> "", disk |-> d]
Threw(d, message) == [threw |-> TRUE, message |-> message, disk |-> d]

\* fs.mkdirSync(p, { recursive: true })
mkdirSync(d, p) ==
    LET missing == ({p} \cup Ancestors(p)) \ d.dirs
    IN  IF missing \cap DOMAIN d.files # {}
        THEN Threw(d, "Error: ENOTDIR: not a directory, mkdir '" \o p \o "'")
        ELSE IF missing \cap d.denied # {}
        THEN Threw(d, "Error: EACCES: permission denied, mkdir '" \o p \o "'")
        ELSE Returned([d EXCEPT !.dirs = @ \cup missing])

\* fs.writeFileSync(p, content, 'utf-8')
writeFileSync(d, p, content) ==
    IF p \in d.dirs
    THEN Threw(d, "Error: EISDIR: illegal operation on a directory, open '" \o p \o "'")
    ELSE IF dirname(p) \notin d.dirs \cup {"."}
    THEN Threw(d, "Error: ENOENT: no such file or directory, open '" \o p \o "'")
    ELSE IF p \in d.denied
    THEN Threw(d, "Error: EACCES: permission denied, open '" \o p \o "'")
    ELSE Returned([d EXCEPT !.files = (p :> content) @@ @])

(***************************************************************************)
(* The Generator.                                                          *)
(***************************************************************************)
\* this.templateRegistry.get(name)
get(name) ==
    IF name \in DOMAIN templateRegistry THEN Str(templateRegistry[name]) ELSE Undefined

NotFound(name) == "# Template '" \o name \o "' not found\n"

\* { intent, stack, ...fileTemplate.context }
Context(fileTemplate, i, st) ==
    LET own == [intent |-> IntentObject(i), stack |-> StackObject(st)]
    IN  IF "context" \in DOMAIN fileTemplate
        THEN Obj(fileTemplate.context.fields @@ own)
        ELSE Obj(own)

\* a rendering that takes every registered text, the empty one too
renderTemplate_anyRegisteredText(fileTemplate, i, st) ==
    LET template == get(fileTemplate.template)
    IN  IF template = Undefined
        THEN [threw |-> FALSE, text |-> NotFound(fileTemplate.template)]
        ELSE [threw |-> FALSE,
              text |-> simpleTemplateEngine(template.value, Context(fileTemplate, i, st))]

\* a rendering that throws when the template is not registered
renderTemplate_throwing(fileTemplate, i, st) ==
    LET template == get(fileTemplate.template)
    IN  IF ~Truthy(template)
        THEN [threw |-> TRUE,
              text |-> "Error: Template '" \o fileTemplate.template \o "' not found"]
        ELSE [threw |-> FALSE,
              text |-> simpleTemplateEngine(template.value, Context(fileTemplate, i, st))]

\* renderTemplate returns its text; no path of it throws
renderTemplate(fileTemplate, i, st) ==
    LET template == get(fileTemplate.template)
    IN  IF ~Truthy(template)
        THEN [threw |-> FALSE, text |-> NotFound(fileTemplate.template)]
        ELSE [threw |-> FALSE,
              text |-> simpleTemplateEngine(template.value, Context(fileTemplate, i, st))]

\* a step that lists the directory before it is created
createDirectory_pushFirst(run, fullPath) ==
    IF run.threw \/ existsSync(run.disk, fullPath) THEN run
    ELSE LET made == mkdirSync(run.disk, fullPath)
         IN  IF made.threw
             THEN [run EXCEPT !.threw = TRUE, !.message = made.message,
                              !.result.directoriesCreated = Append(@, fullPath)]
             ELSE [run EXCEPT !.disk = made.disk,
                              !.result.directoriesCreated = Append(@, fullPath)]

\* if (!fs.existsSync(fullPath)) { fs.mkdirSync(fullPath); directoriesCreated.push(fullPath) }
\* run records the disk, the result so far and the exception that ended the block
createDirectory(run, fullPath) ==
    IF run.threw \/ existsSync(run.disk, fullPath) THEN run
    ELSE LET made == mkdirSync(run.disk, fullPath)
         IN  IF made.threw
             THEN [run EXCEPT !.threw = TRUE, !.message = made.message]
             ELSE [run EXCEPT !.disk = made.disk,
                              !.result.directoriesCreated = Append(@, fullPath)]

\* for (const dir of stack.structure.directories) ...
RECURSIVE createDirectories(_, _, _)
createDirectories(run, directories, outputDir) ==
    IF directories = <<>> THEN run
    ELSE createDirectories(createDirectory(run, pathJoin(outputDir, Head(directories))),
                           Tail(directories), outputDir)

\* the body of the loop over stack.structure.files, with its own try/catch
generateFile(run, fileTemplate, i, st, outputDir) ==
    LET content == renderTemplate(fileTemplate, i, st)
        fullPath == pathJoin(outputDir, fileTemplate.path)
        parentDir == dirname(fullPath)
        made == IF existsSync(run.disk, parentDir) THEN Returned(run.disk)
                ELSE mkdirSync(run.disk, parentDir)
        written == writeFileSync(made.disk, fullPath, content.text)
        failed(error) ==
            Append(run.result.errors,
                   "Failed to generate " \o fileTemplate.path \o ": " \o error)
    IN  IF content.threw
        THEN [run EXCEPT !.result.errors = failed(content.text)]
        ELSE IF made.threw
        THEN [run EXCEPT !.result.errors = failed(made.message)]
        ELSE IF written.threw
        THEN [run EXCEPT !.disk = made.disk, !.result.errors = failed(written.message)]
        ELSE [run EXCEPT !.disk = written.disk,
                         !.result.filesCreated = Append(@, fullPath)]

\* a loop that ends at the first file that fails
RECURSIVE generateFiles_stopAtFailure(_, _, _, _, _)
generateFiles_stopAtFailure(run, files, i, st, outputDir) ==
    IF run.threw \/ files = <<>> \/ run.result.errors # <<>> THEN run
    ELSE generateFiles_stopAtFailure(generateFile(run, Head(files), i, st, outputDir),
                                     Tail(files), i, st, outputDir)

\* for (const fileTemplate of stack.structure.files) ...
RECURSIVE generateFiles(_, _, _, _, _)
generateFiles(run, files, i, st, outputDir) ==
    IF run.threw \/ files = <<>> THEN run
    ELSE generateFiles(generateFile(run, Head(files), i, st, outputDir),
                       Tail(files), i, st, outputDir)

\* a generate whose result starts as a success
generate_successfulUntilFilesDone(i, st, outputDir, d) ==
    LET start == [disk |-> d, threw |-> FALSE, message |-> "",
                  result |-> [success |-> TRUE, filesCreated |-> <<>>,
                              directoriesCreated |-> <<>>, errors |-> <<>>]]
        root == createDirectory(start, outputDir)
        dirs == createDirectories(root, st.structure.directories, outputDir)
        done == generateFiles(dirs, st.structure.files, i, st, outputDir)
    IN  IF done.threw
        THEN [done EXCEPT !.result.errors = Append(@, "Generation failed: " \o done.message)]
        ELSE [done EXCEPT !.result.success = (Len(done.result.errors) = 0)]

\* generate(intent, stack, outputDir) on disk d: the result and the disk it leaves
generate(i, st, outputDir, d) ==
    LET start == [disk |-> d, threw |-> FALSE, message |-> "",
                  result |-> [success |-> FALSE, filesCreated |-> <<>>,
                              directoriesCreated |-> <<>>, errors |-> <<>>]]
        root == createDirectory(start, outputDir)
        dirs == createDirectories(root, st.structure.directories, outputDir)
        done == generateFiles(dirs, st.structure.files, i, st, outputDir)
    IN  IF done.threw
        THEN [done EXCEPT !.result.errors = Append(@, "Generation failed: " \o done.message)]
        ELSE [done EXCEPT !.result.success = (Len(done.result.errors) = 0)]

(***************************************************************************)
(* A caller of the Generator: it may register templates, then calls        *)
(* generate once with an intent, a stack and an output directory.  The     *)
(* stack is the selector's, or the selector's with the caller's own file   *)
(* templates.                                                              *)
(***************************************************************************)
OutputDir == "out"

GeneratorIntents ==
    {ChatAppIntent,
     [name |-> "chat-app", scale |-> "small", requirements |-> <<"Static documentation">>,
      features |-> Undefined, constraints |-> Undefined],
     [name |-> "chat-app", scale |-> "startup", requirements |-> <<"web interface">>,
      features |-> Undefined,
      constraints |-> Constraints(Arr(<<"python">>), Undefined, Undefined)]}

\* template texts a caller registers
CallerTemplates ==
    {"# {{intent.name}} by {{foo.bar}}",
     "{{stack.technologies.frontend.framework}}/{{intent.constraints.languages}}",
     "{{nil.x}}={{nil}};{{owner}}:{{intent.requirements.length}}",
     "{{intent.name}}{{#if stack.technologies.backend}}INSIDE {{intent.scale}}{{/if}}{{foo.bar}}",
     "a{{#if x}}INSIDE{{#if y}}INSIDE{{/if}}d{{/if}}e",
     ""}

\* the names they are registered under: a new name and the name of a built-in
CallerTemplateNames == {"notes", "readme"}

\* the calls of registerTemplate a caller makes, as <<name, template>>
CallerRegistrations ==
    {r \in CallerTemplateNames \X CallerTemplates :
        r[1] = "notes" \/ r[2] \in {"# {{intent.name}} by {{foo.bar}}", ""}}

\* the file templates a caller puts in place of the selector's
CallerFiles ==
    {<<[path |-> "NOTES.md", template |-> "notes"],
       [path |-> "README.md", template |-> "readme"]>>,
     <<[path |-> "NOTES.md", template |-> "notes",
        context |-> Obj([nil |-> Null, owner |-> Str("ops")])],
       [path |-> "docs/missing.txt", template |-> "missing"]>>,
     <<[path |-> ".gitignore", template |-> "gitignore"],
       [path |-> "src", template |-> "gitignore"],
       [path |-> "NOTES.md", template |-> "notes"]>>}

GeneratorStacks(i) ==
    {selectStack(i)}
    \cup {[selectStack(i) EXCEPT !.structure.files = files] : files \in CallerFiles}

\* a new or an already populated output directory, and paths the system refuses
GeneratorDisks ==
    {[dirs |-> dirs, files |-> <<>>, denied |-> denied] :
        dirs \in {{}, {OutputDir, pathJoin(OutputDir, "src")}},
        denied \in {{}, {pathJoin(OutputDir, "NOTES.md")}, {pathJoin(OutputDir, "tests")},
                    {OutputDir}}}

InitGenerator ==
    /\ intent \in GeneratorIntents
    /\ stack \in GeneratorStacks(intent)
    /\ validations = <<>>
    /\ recommendation = NoValue
    /\ considerationsTable = ARCHITECTURE_CONSIDERATIONS
    /\ returned = <<>>
    /\ templateRegistry = registerBuiltInTemplates
    /\ disk \in GeneratorDisks
    /\ generated = NoValue
    /\ registrations = <<>>
    /\ document = NoValue
    /\ parsed = NoValue
    /\ invocation = NoValue
    /\ exitCode = NoValue

\* a registration that keeps the entry a name already has
registerTemplate_keepFirst(registry, name, template) ==
    registry @@ (name :> template)

\* this.templateRegistry.set(name, template): the registry after the call
registerTemplate(registry, name, template) ==
    (name :> template) @@ registry

\* generator.registerTemplate(name, template), before the call of generate
RegisterTemplate ==
    /\ generated = NoValue
    /\ \E r \in CallerRegistrations :
           /\ templateRegistry' = registerTemplate(templateRegistry, r[1], r[2])
           /\ registrations' = (r[1] :> r[2]) @@ registrations
    /\ UNCHANGED <<intent, validations, recommendation, stack, sharedVars, disk, generated,
                   frontEndVars>>

\* result = await generator.generate(intent, stack, outputDir)
Generate ==
    /\ generated = NoValue
    /\ LET done == generate(intent, stack, OutputDir, disk)
       IN  /\ generated' = done.result
           /\ disk' = done.disk
    /\ UNCHANGED <<intent, validations, recommendation, stack, sharedVars, templateRegistry,
                   registrations, frontEndVars>>

NextGenerator == RegisterTemplate \/ Generate

SpecGenerator == InitGenerator /\ [][NextGenerator]_vars

(***************************************************************************)
(* Callers that call an operation again after changing the value it        *)
(* returned.  generateStackRecommendation returns the array of             *)
(* ARCHITECTURE_CONSIDERATIONS itself; selectStack builds its arrays and   *)
(* objects anew in every call.                                             *)
(***************************************************************************)
IsExtensionIntent(i) == "scaleLevel" \in DOMAIN i

SharedIntents ==
    {i \in ExtensionIntents :
        /\ i.name = Str("my-web-app")
        /\ IsValidScaleLevel(i.scaleLevel)
        /\ i.requirements = Arr(<<Str("Build a REST API")>>)}
    \cup {i \in CoreIntents : Len(i.requirements) = 1 /\ i.constraints = Undefined}

InitShared ==
    /\ intent \in SharedIntents
    /\ validations = <<>>
    /\ recommendation = NoValue
    /\ stack = NoValue
    /\ considerationsTable = ARCHITECTURE_CONSIDERATIONS
    /\ returned = <<>>
    /\ templateRegistry = registerBuiltInTemplates
    /\ disk = EmptyDisk
    /\ generated = NoValue
    /\ registrations = <<>>
    /\ document = NoValue
    /\ parsed = NoValue
    /\ invocation = NoValue
    /\ exitCode = NoValue

\* recommendation = generateStackRecommendation(intent)
CallRecommendation ==
    /\ IsExtensionIntent(intent)
    /\ Len(returned) < MaxCalls
    /\ recommendation' = generateStackRecommendation(intent)
    /\ returned' = Append(returned, recommendation')
    /\ UNCHANGED <<intent, validations, stack, considerationsTable, generatorVars, frontEndVars>>

\* recommendation.considerations.push(...): the array is the one the table holds
PushConsideration ==
    /\ recommendation # NoValue
    /\ recommendation.considerations # Undefined
    /\ Occurrences(recommendation.considerations.items, "Added by the caller") < MaxPushes
    /\ LET changed == Arr(Append(recommendation.considerations.items, "Added by the caller"))
       IN  /\ recommendation' = [recommendation EXCEPT !.considerations = changed]
           /\ considerationsTable' =
                  [considerationsTable EXCEPT ![recommendation.architecture.value] = changed]
    /\ UNCHANGED <<intent, validations, stack, returned, generatorVars, frontEndVars>>

\* stack = stackSelector.selectStack(intent)
CallSelectStack ==
    /\ ~IsExtensionIntent(intent)
    /\ Len(returned) < MaxCalls
    /\ stack' = selectStack(intent)
    /\ returned' = Append(returned, stack')
    /\ UNCHANGED <<intent, validations, recommendation, considerationsTable, generatorVars, frontEndVars>>

\* stack.structure.directories.push(...), stack.structure.files.push(...) or
\* delete stack.technologies.backend: each belongs to this stack alone
EditStack ==
    /\ stack # NoValue
    /\ \/ /\ Occurrences(stack.structure.directories, "extra") < MaxPushes
          /\ stack' = [stack EXCEPT !.structure.directories = Append(@, "extra")]
       \/ /\ Len(stack.structure.files) < 3 + MaxPushes
          /\ stack' = [stack EXCEPT !.structure.files =
                          Append(@, [path |-> "extra.txt", template |-> "readme"])]
       \/ /\ stack.technologies.backend # Undefined
          /\ stack' = [stack EXCEPT !.technologies.backend = Undefined]
    /\ UNCHANGED <<intent, validations, recommendation, sharedVars, generatorVars, frontEndVars>>

NextShared == CallRecommendation \/ PushConsideration \/ CallSelectStack \/ EditStack

SpecShared == InitShared /\ [][NextShared]_vars

(***************************************************************************)
(* The parser of intent files.  JSON.parse and yaml.load are library       *)
(* functions: Documents states what they do with each text of the corpus,  *)
(* a decoded value or a thrown error.                                      *)
(***************************************************************************)
\* a call that threw an error, and a call that returned a value
ThrownError(name, message) ==
    [threw |-> TRUE, name |-> name, message |-> message, value |-> NoValue]
ReturnedValue(value) ==
    [threw |-> FALSE, name |-> "", message |-> "", value |-> value]

\* `${error}`
ErrorText(call) == call.name \o ": " \o call.message

DecodedIntent(name, scale, requirements) ==
    ReturnedValue(Obj([name |-> name, scale |-> scale, requirements |-> requirements]))

JSONSyntaxError == ThrownError("SyntaxError", "Unexpected token in JSON")
YAMLError == ThrownError("YAMLException", "bad indentation or unexpected end of the stream")

Document(text, json, yaml) == [text |-> text, json |-> json, yaml |-> yaml]

\* a text in JSON is also a text in YAML
Both(text, decoded) == Document(text, decoded, decoded)

Documents ==
    {Both("{\"name\":\"app\",\"scale\":\"solo\",\"requirements\":[\"api\"]}",
          DecodedIntent(Str("app"), Str("solo"), Arr(<<Str("api")>>))),
     Document("name: app\nscale: team\nrequirements:\n  - database\n",
              JSONSyntaxError,
              DecodedIntent(Str("app"), Str("team"), Arr(<<Str("database")>>))),
     Both("{\"name\":\"app\",\"scale\":\"solo\",\"requirements\":[\"\"]}",
          DecodedIntent(Str("app"), Str("solo"), Arr(<<Str("")>>))),
     Both("{\"name\":\"app\",\"scale\":\"startup\",\"requirements\":[\"api\",42]}",
          DecodedIntent(Str("app"), Str("startup"), Arr(<<Str("api"), Num(42)>>))),
     Both("{\"name\":\"  \",\"scale\":\"solo\",\"requirements\":[\"api\"]}",
          DecodedIntent(Str("  "), Str("solo"), Arr(<<Str("api")>>))),
     Both("{\"name\":\"app\",\"scale\":\"huge\",\"requirements\":[\"api\"]}",
          DecodedIntent(Str("app"), Str("huge"), Arr(<<Str("api")>>))),
     Both("{\"name\":\"app\",\"scale\":\"solo\",\"requirements\":[]}",
          DecodedIntent(Str("app"), Str("solo"), Arr(<<>>))),
     Both("{\"name\":\"app\",\"scale\":\"solo\",\"requirements\":\"api\"}",
          DecodedIntent(Str("app"), Str("solo"), Str("api"))),
     Document("name: 7\nscale: solo\nrequirements:\n  - api\n",
              JSONSyntaxError,
              DecodedIntent(Num(7), Str("solo"), Arr(<<Str("api")>>))),
     Both("{\"scale\":\"solo\",\"requirements\":[\"api\"]}",
          ReturnedValue(Obj([scale |-> Str("solo"), requirements |-> Arr(<<Str("api")>>)]))),
     Both("null", ReturnedValue(Null)),
     Both("[\"app\",\"solo\"]", ReturnedValue(Arr(<<Str("app"), Str("solo")>>))),
     Document("", JSONSyntaxError, ReturnedValue(Undefined)),
     Document("{\"name\":", JSONSyntaxError, YAMLError)}

DocumentTexts == {d.text : d \in Documents}

DocumentOf(text) == CHOOSE d \in Documents : d.text = text

\* JSON.parse(text) and yaml.load(text)
JSONParse(text) == DocumentOf(text).json
YAMLLoad(text) == DocumentOf(text).yaml

\* typeof v === 'object'
IsObjectType(v) == v.type \in {"object", "array", "null"}

\* validateIntent(intent): intent is Intent, of the core library
validateIntentBoolean(data) ==
    /\ Truthy(data) /\ IsObjectType(data)
    /\ Truthy(GetProperty(data, "name"))
    /\ IsString(GetProperty(data, "name"))
    /\ trim(GetProperty(data, "name").value) # ""
    /\ Truthy(GetProperty(data, "scale"))
    /\ IsString(GetProperty(data, "scale"))
    /\ GetProperty(data, "scale").value \in ScaleLevel
    /\ GetProperty(data, "requirements").type = "array"
    /\ Len(GetProperty(data, "requirements").items) # 0

\* parseIntent(data)
parseIntent(data) ==
    IF ~validateIntentBoolean(data)
    THEN ThrownError("Error", "Invalid intent format. Required fields: name, scale, requirements")
    ELSE ReturnedValue(data)

\* try { return this.parseIntent(decode(content)) } catch (error) { throw new Error(...) }
parseDecoded(decoded, format) ==
    LET call == IF decoded.threw THEN decoded ELSE parseIntent(decoded.value)
    IN  IF call.threw
        THEN ThrownError("Error", "Failed to parse " \o format \o ": " \o ErrorText(call))
        ELSE call

parseYAML(yamlContent) == parseDecoded(YAMLLoad(yamlContent), "YAML")
parseJSON(jsonContent) == parseDecoded(JSONParse(jsonContent), "JSON")

(***************************************************************************)
(* The parser of natural-language descriptions.                            *)
(***************************************************************************)
\* [a-z0-9-] under the i flag
IsNameChar(c) == (IsWordChar(c) /\ c # "_") \/ c = "-"

\* the position after the longest run of white space from position i
WhiteSpaceEnd(s, i) ==
    LET stops == {j \in i..Len(s) : ~IsWhiteSpace(CharAt(s, j))} \cup {Len(s) + 1}
    IN  CHOOSE j \in stops : \A k \in stops : j <= k

\* the position after the longest run of name characters from position i
NameEnd(s, i) ==
    LET stops == {j \in i..Len(s) : ~IsNameChar(CharAt(s, j))} \cup {Len(s) + 1}
    IN  CHOOSE j \in stops : \A k \in stops : j <= k

\* /(?:called|named|for)\s+["']?([a-z0-9-]+)["']?/i at position i: the
\* captured name, or "" when there is no match at i
NameMatchAt(s, i) ==
    LET lower == toLowerCase(s)
        words == {w \in {"called", "named", "for"} : StartsWithAt(lower, i, w)}
    IN  IF words = {} THEN ""
        ELSE LET w == CHOOSE x \in words : TRUE
                 space == i + Len(w)
                 quote == WhiteSpaceEnd(s, space)
                 start == IF quote <= Len(s) /\ CharAt(s, quote) \in {"\"", "'"}
                          THEN quote + 1 ELSE quote
             IN  IF quote = space THEN ""
                 ELSE SubSeq(s, start, NameEnd(s, start) - 1)

\* description.match(...): the name captured by the leftmost match, or ""
nameMatch(description) ==
    LET hits == {i \in 1..Len(description) : NameMatchAt(description, i) # ""}
    IN  IF hits = {} THEN ""
        ELSE NameMatchAt(description, CHOOSE i \in hits : \A k \in hits : i <= k)

\* a detection that tests the startup phrases before the team phrases
detectScale_startupFirst(text) ==
    LET lowerText == toLowerCase(text)
    IN  IF includes(lowerText, "enterprise") \/ includes(lowerText, "large scale")
        THEN "enterprise"
        ELSE IF includes(lowerText, "startup") \/ includes(lowerText, "small team")
        THEN "startup"
        ELSE IF includes(lowerText, "team") \/ includes(lowerText, "multiple developers")
        THEN "team"
        ELSE "solo"

detectScale(text) ==
    LET lowerText == toLowerCase(text)
    IN  IF includes(lowerText, "enterprise") \/ includes(lowerText, "large scale")
        THEN "enterprise"
        ELSE IF includes(lowerText, "team") \/ includes(lowerText, "multiple developers")
        THEN "team"
        ELSE IF includes(lowerText, "startup") \/ includes(lowerText, "small team")
        THEN "startup"
        ELSE "solo"

\* the words of a list that the text contains, in the order of the list
RECURSIVE Contained(_, _)
Contained(words, lowerText) ==
    IF words = <<>> THEN <<>>
    ELSE (IF includes(lowerText, Head(words)) THEN <<Head(words)>> ELSE <<>>)
             \o Contained(Tail(words), lowerText)

RequirementKeywords ==
    <<"real-time", "authentication", "database", "api", "mobile", "web interface",
      "messaging", "chat", "notifications", "file upload", "payment", "analytics">>

\* an extraction without the fallback to the whole description
extractRequirements_keywordsOnly(text) ==
    Contained(RequirementKeywords, toLowerCase(text))

extractRequirements(text) ==
    LET requirements == Contained(RequirementKeywords, toLowerCase(text))
    IN  IF Len(requirements) = 0 THEN <<trim(text)>> ELSE requirements

FeaturePhrases == <<"user management", "admin panel", "dashboard", "reporting", "search">>

featureMap ==
    [p \in {FeaturePhrases[k] : k \in DOMAIN FeaturePhrases} |->
        CASE p = "user management" -> "user-management"
          [] p = "admin panel" -> "admin-panel"
          [] p = "search" -> "search-functionality"
          [] OTHER -> p]

extractFeatures(text) ==
    LET found == Contained(FeaturePhrases, toLowerCase(text))
    IN  [k \in DOMAIN found |-> featureMap[found[k]]]

extractConstraints(text) ==
    LET lowerText == toLowerCase(text)
        has(word) == includes(lowerText, word)
        languages ==
            (IF has("python") THEN <<"python">> ELSE <<>>)
            \o (IF has("typescript") \/ has("javascript") THEN <<"typescript">> ELSE <<>>)
            \o (IF has("go") \/ has("golang") THEN <<"go">> ELSE <<>>)
            \o (IF has("java") THEN <<"java">> ELSE <<>>)
        platforms ==
            (IF has("aws") THEN <<"aws">> ELSE <<>>)
            \o (IF has("azure") THEN <<"azure">> ELSE <<>>)
            \o (IF has("gcp") \/ has("google cloud") THEN <<"gcp">> ELSE <<>>)
            \o (IF has("docker") THEN <<"docker">> ELSE <<>>)
            \o (IF has("kubernetes") THEN <<"kubernetes">> ELSE <<>>)
        budgetLevel ==
            IF has("minimal cost") \/ has("low budget") THEN Str("minimal")
            ELSE IF has("flexible budget") THEN Str("flexible")
            ELSE Undefined
    IN  Constraints(IF Len(languages) > 0 THEN Arr(languages) ELSE Undefined,
                    IF Len(platforms) > 0 THEN Arr(platforms) ELSE Undefined,
                    budgetLevel)

parseNaturalLanguage(description) ==
    LET features == extractFeatures(description)
        constraints == extractConstraints(description)
    IN  [name |-> IF nameMatch(description) # "" THEN nameMatch(description)
                  ELSE "my-project",
         scale |-> detectScale(description),
         requirements |-> extractRequirements(description),
         features |-> IF Len(features) > 0 THEN Arr(features) ELSE Undefined,
         constraints |->
             IF constraints # Constraints(Undefined, Undefined, Undefined)
             THEN constraints ELSE Undefined]

(***************************************************************************)
(* A caller of the parsers: a text is parsed once, as YAML or as JSON when *)
(* it is the text of an intent file, as a description otherwise.           *)
(***************************************************************************)
\* descriptions: how the project is named, its scale, what it needs
NamePhrases == {"", "An app called Shop-1 ", "a tool named 'etl' ", "Platform for  ", "for"}
ScalePhrases ==
    {"", "enterprise", "large scale", "team", "multiple developers", "startup",
     "small team", "Small Team in a Startup", "STARTUP"}
NeedPhrases == {"", " with real-time chat", " using python, a dashboard and low budget", "  "}

Descriptions == {n \o sc \o r : n \in NamePhrases, sc \in ScalePhrases, r \in NeedPhrases}

InitParsers ==
    /\ intent = NoValue
    /\ validations = <<>>
    /\ recommendation = NoValue
    /\ stack = NoValue
    /\ considerationsTable = ARCHITECTURE_CONSIDERATIONS
    /\ returned = <<>>
    /\ templateRegistry = registerBuiltInTemplates
    /\ disk = EmptyDisk
    /\ generated = NoValue
    /\ registrations = <<>>
    /\ document \in DocumentTexts \cup Descriptions
    /\ parsed = NoValue
    /\ invocation = NoValue
    /\ exitCode = NoValue

\* dslParser.parseYAML(document)
ParseYAML ==
    /\ parsed = NoValue
    /\ document \in DocumentTexts
    /\ parsed' = [by |-> "parseYAML", call |-> parseYAML(document)]
    /\ UNCHANGED <<intent, validations, recommendation, stack, sharedVars, generatorVars,
                   document, invocation, exitCode>>

\* dslParser.parseJSON(document)
ParseJSON ==
    /\ parsed = NoValue
    /\ document \in DocumentTexts
    /\ parsed' = [by |-> "parseJSON", call |-> parseJSON(document)]
    /\ UNCHANGED <<intent, validations, recommendation, stack, sharedVars, generatorVars,
                   document, invocation, exitCode>>

\* nlParser.parseNaturalLanguage(document)
ParseNaturalLanguage ==
    /\ parsed = NoValue
    /\ document \in Descriptions
    /\ parsed' = [by |-> "parseNaturalLanguage",
                   call |-> ReturnedValue(parseNaturalLanguage(document))]
    /\ UNCHANGED <<intent, validations, recommendation, stack, sharedVars, generatorVars,
                   document, invocation, exitCode>>

NextParsers == ParseYAML \/ ParseJSON \/ ParseNaturalLanguage

SpecParsers == InitParsers /\ [][NextParsers]_vars

(***************************************************************************)
(* The command line.  A command runs in a process of its own; the process  *)
(* ends with code 1 where the handler calls process.exit(1) and with code  *)
(* 0 where the handler returns.                                            *)
(***************************************************************************)
\* the position of the last "." of a path, or 0
RECURSIVE LastDot(_, _)
LastDot(p, i) ==
    IF i = 0 THEN 0
    ELSE IF CharAt(p, i) = "." THEN i
    ELSE LastDot(p, i - 1)

\* path.extname(p): from the last "." of the base name, unless it is its first character
extname(p) ==
    LET dot == LastDot(p, Len(p))
    IN  IF dot <= LastSlash(p, Len(p)) + 1 THEN ""
        ELSE SubSeq(p, dot, Len(p))

\* fs.readFileSync(p, 'utf-8')
readFileSync(d, p) ==
    IF p \in DOMAIN d.files THEN ReturnedValue(d.files[p])
    ELSE IF p \in d.dirs
    THEN ThrownError("Error", "EISDIR: illegal operation on a directory, read")
    ELSE ThrownError("Error", "ENOENT: no such file or directory, open '" \o p \o "'")

\* the Intent that a parsed intent file stands for; selectStack and the
\* templates read a requirement through its string form
AsIntent(data) ==
    [name |-> data.fields.name.value,
     scale |-> data.fields.scale.value,
     requirements |-> [k \in DOMAIN data.fields.requirements.items |->
                          String(data.fields.requirements.items[k])],
     features |-> Undefined,
     constraints |-> Undefined]

\* dslParser.toYAML(intent) for an intent of createDefaultIntent with a plain name
toYAML(i) ==
    "name: " \o i.name \o "\nscale: " \o i.scale \o "\nrequirements:\n"
        \o join([k \in DOMAIN i.requirements |-> "  - " \o i.requirements[k] \o "\n"], "")

\* what a command leaves behind: its exit code, and what it parsed, selected,
\* generated and wrote
Finished(code, call, i, st, result, d) ==
    [exitCode |-> Num(code), parsed |-> call, intent |-> i, stack |-> st,
     generated |-> result, disk |-> d]

\* the end of a handler whose generator has returned
Generated(call, i, st, run) == Finished(0, call, i, st, run.result, run.disk)

\* the stack that generateFromIntent selects, and its call of generate
generateWith(call, i, st, output, d) == Generated(call, i, st, generate(i, st, output, d))

\* intentKit.generateFromIntent(intent, output), then the end of the handler
generateFromIntent(call, i, output, d) == generateWith(call, i, selectStack(i), output, d)

\* the parse step of the generate and the validate command
parseIntentFile(inv, d) ==
    LET content == readFileSync(d, inv.intentFile)
        ext == toLowerCase(extname(inv.intentFile))
    IN  IF content.threw THEN [by |-> "readFileSync", call |-> content]
        ELSE IF ext \in {".yaml", ".yml"}
        THEN [by |-> "parseYAML", call |-> parseYAML(content.value)]
        ELSE IF ext = ".json"
        THEN [by |-> "parseJSON", call |-> parseJSON(content.value)]
        ELSE [by |-> "extname",
              call |-> ThrownError("Error",
                                   IF inv.command = "generate"
                                   THEN "Unsupported file format. Use .yaml, .yml, or .json"
                                   ELSE "Unsupported file format")]

\* the handler after the parse step
generateParsed(step, inv, d) ==
    IF step.call.threw
    THEN Finished(1, step, NoValue, NoValue, NoValue, d)
    ELSE generateFromIntent(step, AsIntent(step.call.value), inv.output, d)

\* intent-kit generate <intent-file> -o <dir>
generateCommand(inv, d) == generateParsed(parseIntentFile(inv, d), inv, d)

\* the handler after the parse step
validateParsed(step, d) ==
    Finished(IF step.call.threw THEN 1 ELSE 0, step, NoValue, NoValue, NoValue, d)

\* intent-kit validate <intent-file>
validateCommand(inv, d) == validateParsed(parseIntentFile(inv, d), d)

\* the handler after the parse step
describeParsed(i, inv, d) ==
    generateFromIntent([by |-> "parseNaturalLanguage", call |-> ReturnedValue(i)],
                       i, inv.output, d)

\* intent-kit describe <description> -o <dir>
describeCommand(inv, d) == describeParsed(parseNaturalLanguage(inv.description), inv, d)

\* intent-kit init <project-name> -s <level> -o <file>
initCommand(inv, d) ==
    LET i == [createDefaultIntent(inv.projectName) EXCEPT !.scale = inv.scale]
        written == writeFileSync(d, inv.output, toYAML(i))
    IN  Finished(IF written.threw THEN 1 ELSE 0, NoValue, i, NoValue, NoValue, written.disk)

(***************************************************************************)
(* A run of the command line: one command, on a disk that holds intent     *)
(* files and may refuse some paths.                                        *)
(***************************************************************************)
\* the intent files on the disk, each with the same text, in JSON or in YAML
IntentFiles == {"intent.yaml", "intent.yml", "intent.json", "specs/intent.JSON",
                "intent.txt", "intent", ".yaml"}

\* a file the disk does not hold
MissingFile == "missing.yaml"

\* the disks a command may find: the text of the intent files, the paths refused
CliDisks(texts, refusals) ==
    {[dirs |-> {"specs"}, files |-> [p \in IntentFiles |-> text], denied |-> denied] :
        text \in texts, denied \in refusals}

\* the commands that read an intent file meet every text; the others write only
DisksOf(inv) ==
    IF inv.command \in {"generate", "validate"}
    THEN CliDisks(DocumentTexts,
                  {{}, {pathJoin(OutputDir, "README.md")}, {OutputDir}})
    ELSE CliDisks({"name: app\nscale: team\nrequirements:\n  - database\n"},
                  {{}, {pathJoin(OutputDir, "src")}, {"intent.yaml"}})

Invocations ==
    {[command |-> "init", projectName |-> name, scale |-> scale, output |-> output] :
        name \in ProjectNames, scale \in {"solo", "huge"},
        output \in {"intent.yaml", "new/intent.yaml", "specs"}}
    \cup {[command |-> command, intentFile |-> file, output |-> OutputDir] :
            command \in {"generate", "validate"}, file \in IntentFiles \cup {MissingFile}}
    \cup {[command |-> "describe", description |-> description, output |-> OutputDir] :
            description \in {"", "An app called Shop-1 team with real-time chat",
                             "Platform for  enterprise using python, a dashboard and low budget"}}

InitCli ==
    /\ intent = NoValue
    /\ validations = <<>>
    /\ recommendation = NoValue
    /\ stack = NoValue
    /\ considerationsTable = ARCHITECTURE_CONSIDERATIONS
    /\ returned = <<>>
    /\ templateRegistry = registerBuiltInTemplates
    /\ invocation \in Invocations
    /\ disk \in DisksOf(invocation)
    /\ generated = NoValue
    /\ registrations = <<>>
    /\ document = NoValue
    /\ parsed = NoValue
    /\ exitCode = NoValue

\* the process runs the command's handler and ends
Run(done) ==
    /\ exitCode = NoValue
    /\ exitCode' = done.exitCode
    /\ parsed' = done.parsed
    /\ intent' = done.intent
    /\ stack' = done.stack
    /\ generated' = done.generated
    /\ disk' = done.disk
    /\ UNCHANGED <<validations, recommendation, sharedVars, templateRegistry, registrations,
                   document, invocation>>

RunInit ==
    /\ invocation.command = "init"
    /\ \E done \in {initCommand(invocation, disk)} : Run(done)

RunGenerate ==
    /\ invocation.command = "generate"
    /\ \E done \in {generateCommand(invocation, disk)} : Run(done)

RunDescribe ==
    /\ invocation.command = "describe"
    /\ \E done \in {describeCommand(invocation, disk)} : Run(done)

RunValidate ==
    /\ invocation.command = "validate"
    /\ \E done \in {validateCommand(invocation, disk)} : Run(done)

NextCli == RunInit \/ RunGenerate \/ RunDescribe \/ RunValidate

SpecCli == InitCli /\ [][NextCli]_vars

(***************************************************************************)
(* Properties of the validator.                                            *)
(***************************************************************************)
\* the value is a string with at least one character that is not white space
IsNonBlankString(v) ==
    /\ v.type = "string"
    /\ \E k \in 1..Len(v.value) : ~IsWhiteSpace(CharAt(v.value, k))

NameCheckFails == ~IsNonBlankString(intent.name)
ScaleCheckFails ==
    intent.scaleLevel \notin {Str("solo"), Str("startup"), Str("team"), Str("enterprise")}
HasRequirements == intent.requirements.type = "array" /\ intent.requirements.items # <<>>
HasBadRequirement ==
    /\ HasRequirements
    /\ \E k \in DOMAIN intent.requirements.items : ~IsNonBlankString(intent.requirements.items[k])
RequirementsCheckFails == ~HasRequirements \/ HasBadRequirement

\* the messages of the failing checks, in the order name, scale, requirements
ExpectedErrors ==
    (IF NameCheckFails THEN <<"Intent must have a non-empty name">> ELSE <<>>)
    \o (IF ScaleCheckFails
        THEN <<"Scale level must be one of: solo, startup, team, enterprise">>
        ELSE <<>>)
    \o (IF ~HasRequirements THEN <<"Intent must have a non-empty requirements array">>
        ELSE IF HasBadRequirement THEN <<"All requirements must be non-empty strings">>
        ELSE <<>>)


\* C1: every ValidationResult holds exactly one message per failing check
\* (name, scale, requirements), in that order, so between 0 and 3 messages;
\* valid is true exactly when errors is empty; a blank name with an empty
\* requirements list and a valid scale gives valid = false and two errors.
C1_ErrorsAccumulate ==
    \A k \in DOMAIN validations :
        LET r == validations[k]
        IN  /\ r.errors = ExpectedErrors
            /\ Len(r.errors) =
                   Cardinality({c \in {"name", "scale", "requirements"} :
                       \/ c = "name" /\ NameCheckFails
                       \/ c = "scale" /\ ScaleCheckFails
                       \/ c = "requirements" /\ RequirementsCheckFails})
            /\ r.valid = (r.errors = <<>>)
            /\ (NameCheckFails /\ ~ScaleCheckFails /\ intent.requirements = Arr(<<>>)
                    => ~r.valid /\ Len(r.errors) = 2)

C1_Witness ==
    /\ validations # <<>>
    /\ intent = [name |-> Str(""), scaleLevel |-> Str("solo"), requirements |-> Arr(<<>>)]
    /\ validations[1] = [valid |-> FALSE,
                         errors |-> <<"Intent must have a non-empty name",
                                      "Intent must have a non-empty requirements array">>]

\* C2: for a non-empty requirements array the message 'All requirements must
\* be non-empty strings' is added exactly once when some element is not a
\* non-blank string, however many are bad, and not at all otherwise; it never
\* appears together with 'Intent must have a non-empty requirements array'.
C2_OneAggregateMessage ==
    \A k \in DOMAIN validations :
        LET errors == validations[k].errors
            aggregate == Occurrences(errors, "All requirements must be non-empty strings")
            empty == Occurrences(errors, "Intent must have a non-empty requirements array")
        IN  /\ HasRequirements => aggregate = (IF HasBadRequirement THEN 1 ELSE 0)
            /\ HasRequirements => empty = 0
            /\ ~(aggregate > 0 /\ empty > 0)

C2_Witness ==
    /\ validations # <<>>
    /\ intent.requirements = Arr(<<Str(""), Num(7)>>)
    /\ Occurrences(validations[1].errors, "All requirements must be non-empty strings") = 1

C4_ScaleOnlyClassifier ==
    recommendation # NoValue /\ ~ScaleCheckFails =>
        LET expected ==
                CASE intent.scaleLevel = Str("solo") -> "monolith"
                  [] intent.scaleLevel = Str("startup") -> "monolith"
                  [] intent.scaleLevel = Str("team") -> "modular-monolith"
                  [] intent.scaleLevel = Str("enterprise") -> "microservices"
        IN  /\ recommendation.architecture = Str(expected)
            /\ recommendation.rationale = ARCHITECTURE_RATIONALE[expected]
            /\ recommendation.considerations = ARCHITECTURE_CONSIDERATIONS[expected]
            /\ expected = "microservices" =>
                   /\ includes(recommendation.rationale.value, "independent scaling")
                   /\ \E k \in 1..3 : recommendation.considerations.items[k] =
                                          "Invest in infrastructure automation"
            /\ expected = "modular-monolith" =>
                   includes(recommendation.rationale.value, "modular monolith")

C4_Witness ==
    /\ recommendation # NoValue
    /\ intent.scaleLevel = Str("team")
    /\ intent.name = Undefined
    /\ intent.requirements = Arr(<<Str(""), Str("Build a REST API")>>)
    /\ recommendation.architecture = Str("modular-monolith")
    /\ recommendation.considerations.items[1] = "Define clear module boundaries"

(***************************************************************************)
(* Properties of the keyword-aware StackSelector.                          *)
(***************************************************************************)
\* some requirement of the intent contains one of the words, in any letter case
Mentions(words) ==
    \E k \in DOMAIN intent.requirements :
        \E w \in words : includes(toLowerCase(intent.requirements[k]), w)

MentionsServerless == Mentions({"serverless", "lambda", "function"})
MentionsStatic == Mentions({"static", "jamstack", "blog", "documentation"})
MentionsFrontend == Mentions({"frontend", "web", "ui", "interface"})
MentionsMobile == Mentions({"mobile", "ios", "android", "react native"})

\* C5: a requirement matching /serverless|lambda|function/i makes the
\* architecture serverless, for every scale and also when a requirement
\* matches the static-site pattern.
C5_ServerlessFirst ==
    stack # NoValue /\ MentionsServerless => stack.architecture = "serverless"

C5_Witness ==
    /\ stack # NoValue
    /\ intent.scale = "enterprise"
    /\ intent.requirements = <<"Static documentation", "AWS Lambda handlers">>
    /\ stack.architecture = "serverless"
    /\ stack.name = "enterprise-serverless"

\* C6: with no serverless keyword, a requirement matching
\* /static|jamstack|blog|documentation/i makes the architecture jamstack for
\* every scale, team and enterprise included.
C6_StaticSecond ==
    stack # NoValue /\ ~MentionsServerless /\ MentionsStatic => stack.architecture = "jamstack"

C6_Witness ==
    /\ stack # NoValue
    /\ intent.scale = "enterprise"
    /\ intent.requirements = <<"user authentication", "Static documentation">>
    /\ stack.architecture = "jamstack"

\* C7: with neither a serverless nor a static-site keyword the architecture
\* depends on scale alone: monolith for solo and startup, microservices for
\* team and enterprise; modular-monolith is never returned.
C7_ScaleFallback ==
    stack # NoValue =>
        /\ stack.architecture # "modular-monolith"
        /\ ~MentionsServerless /\ ~MentionsStatic =>
               /\ intent.scale \in {"solo", "startup"} => stack.architecture = "monolith"
               /\ intent.scale \in {"team", "enterprise"} => stack.architecture = "microservices"

C7_Witness ==
    /\ stack # NoValue
    /\ intent.scale = "team"
    /\ intent.requirements = <<"user authentication", "web interface">>
    /\ stack.architecture = "microservices"

\* C8: the stack has a backend exactly when its architecture is not jamstack.
C8_BackendUnlessJamstack ==
    stack # NoValue =>
        /\ (stack.technologies.backend # Undefined) <=> (stack.architecture # "jamstack")
        /\ stack.architecture \in {"monolith", "microservices", "serverless"} =>
               stack.technologies.backend # Undefined

C8_Witness ==
    /\ stack # NoValue
    /\ stack.architecture = "jamstack"
    /\ intent.constraints = Constraints(Arr(<<"python">>), Undefined, Undefined)
    /\ stack.technologies.backend = Undefined

\* constraints.languages, empty when absent
Languages ==
    IF intent.constraints = Undefined THEN <<>>
    ELSE IF intent.constraints.languages = Undefined THEN <<>>
    ELSE intent.constraints.languages.items

PythonBackend == [language |-> "Python", framework |-> "FastAPI", runtime |-> "Python 3.11"]
GoBackend == [language |-> "Go", framework |-> "Gin", runtime |-> "Go 1.21"]
DefaultBackend == [language |-> "TypeScript", framework |-> "Express", runtime |-> "Node.js 20"]

\* C9 as stated: the first entry of constraints.languages equal to 'python'
\* or 'go' decides the backend, and the default is used only when no entry
\* matches; languages ['java','go'] gives Go/Gin.
C9_FirstMatchingEntry ==
    stack # NoValue /\ stack.architecture # "jamstack" =>
        LET matching == {k \in DOMAIN Languages : Languages[k] \in {"python", "go"}}
            first == CHOOSE k \in matching : \A j \in matching : k <= j
        IN  stack.technologies.backend =
                IF matching = {} THEN DefaultBackend
                ELSE IF Languages[first] = "python" THEN PythonBackend
                ELSE GoBackend

\* C9, amended: when the architecture is not jamstack the first entry of
\* constraints.languages alone decides the backend: 'python' gives
\* Python/FastAPI, 'go' gives Go/Gin, and any other first entry, or an absent
\* or empty list, gives the default TypeScript/Express; later entries are
\* never consulted, so languages ['java','go'] gives TypeScript/Express.
C9_FirstEntryDecides ==
    stack # NoValue /\ stack.architecture # "jamstack" =>
        /\ stack.technologies.backend =
               IF Languages = <<>> THEN DefaultBackend
               ELSE IF Languages[1] = "python" THEN PythonBackend
               ELSE IF Languages[1] = "go" THEN GoBackend
               ELSE DefaultBackend
        /\ Languages = <<"java", "go">> => stack.technologies.backend = DefaultBackend

C9_Witness ==
    /\ stack # NoValue
    /\ stack.architecture # "jamstack"
    /\ Languages = <<"java", "go">>
    /\ stack.technologies.backend.framework = "Express"

MentionsDatabase == Mentions({"database", "storage", "persist"})
MentionsNoSql == Mentions({"flexible schema", "unstructured", "document"})
MentionsRealtime == Mentions({"realtime", "real-time", "websocket", "chat"})

C14_ReadmeECommerceStack ==
    stack # NoValue /\ intent = ECommerceIntent =>
        /\ stack.architecture = "microservices"
        /\ stack.technologies.backend # Undefined
        /\ stack.technologies.backend.language = "TypeScript"
        /\ stack.technologies.backend.framework = "Express"
        /\ stack.technologies.frontend # Undefined
        /\ stack.technologies.frontend.framework = "React"
        /\ stack.technologies.database # Undefined
        /\ stack.technologies.database.engine = "PostgreSQL"
        /\ stack.technologies.messaging # Undefined
        /\ stack.technologies.messaging.provider = "RabbitMQ"
        /\ stack.infrastructure.orchestration = "kubernetes"

C16_StructureByArchitecture ==
    stack # NoValue =>
        /\ stack.structure.directories =
               <<"src", "tests", "docs">> \o
               (CASE stack.architecture = "microservices" ->
                         <<"services", "shared", "infrastructure">>
                  [] stack.architecture = "monolith" ->
                         <<"src/api", "src/models", "src/services", "src/utils">>
                  [] stack.architecture \in {"serverless", "jamstack"} -> <<>>)
        /\ stack.structure.files =
               <<[path |-> "README.md", template |-> "readme"],
                 [path |-> ".gitignore", template |-> "gitignore"],
                 [path |-> "docker-compose.yml", template |-> "docker-compose"]>>

C16_Witness ==
    /\ stack # NoValue
    /\ stack.architecture = "serverless"
    /\ stack.structure.directories = <<"src", "tests", "docs">>
    /\ Len(stack.structure.files) = 3

(***************************************************************************)
(* Properties of repeated calls.                                           *)
(***************************************************************************)
\* C17: selectStack and generateStackRecommendation never modify the Intent,
\* and changing any part of a returned value (its directories, files,
\* technologies or considerations arrays) never changes the value that a
\* later call with an equal Intent returns: all the values returned for one
\* Intent are equal.
C17_NoSharedMutableState ==
    /\ [](\A j, k \in DOMAIN returned : returned[j] = returned[k])
    /\ [][intent' = intent]_vars

(***************************************************************************)
(* Properties of the Generator.  They are stated of the call of generate   *)
(* that the model observes: its inputs are intent, stack and OutputDir,    *)
(* its result is generated, and disk is the file system it leaves.         *)
(***************************************************************************)
Files == stack.structure.files

FullPath(k) == OutputDir \o "/" \o Files[k].path

\* the loop over the file templates was reached
FilesAttempted ==
    \A j \in DOMAIN generated.errors : ~StartsWithAt(generated.errors[j], 1, "Generation failed")

\* the file system takes the file of template k
AcceptsFile(k) == FullPath(k) \notin disk.denied \cup disk.dirs

\* the file of template k was written with the given text and reported
WrittenAs(k, text) ==
    /\ FullPath(k) \in DOMAIN disk.files
    /\ disk.files[FullPath(k)] = text
    /\ \E j \in DOMAIN generated.filesCreated : generated.filesCreated[j] = FullPath(k)

\* no error was recorded for template k
NoErrorFor(k) ==
    \A j \in DOMAIN generated.errors :
        ~StartsWithAt(generated.errors[j], 1, "Failed to generate " \o Files[k].path \o ":")

\* C18: rendering a file template whose template name is not in the registry
\* does not throw; it yields the text "# Template '<name>' not found" and a
\* line break, so generate writes that text to the file, records the path in
\* filesCreated and adds no entry to errors (where the file system accepts
\* the file).
C18_UnregisteredTemplatePlaceholder ==
    generated # NoValue =>
        \A k \in DOMAIN Files :
            (/\ Files[k].template \notin DOMAIN templateRegistry
             /\ FilesAttempted
             /\ AcceptsFile(k))
            => /\ WrittenAs(k, "# Template '" \o Files[k].template \o "' not found\n")
               /\ NoErrorFor(k)

C18_Witness ==
    /\ generated # NoValue
    /\ generated.success
    /\ \E k \in DOMAIN Files :
           /\ Files[k].template = "missing"
           /\ "missing" \notin DOMAIN templateRegistry
           /\ WrittenAs(k, "# Template 'missing' not found\n")

\* the template text that file template k is rendered from, "" when there is none
TemplateOf(k) ==
    IF Files[k].template \in DOMAIN templateRegistry
    THEN templateRegistry[Files[k].template]
    ELSE ""

\* the text written for file template k
Written(k) == disk.files[FullPath(k)]

\* file template k carries the caller's context { nil: null, owner: "ops" }
HasOverrides(k) == "context" \in DOMAIN Files[k]

Resolved(token, text) == [token |-> token, resolves |-> TRUE, text |-> text]
Unresolved(token) == [token |-> token, resolves |-> FALSE, text |-> token]

\* the variables of the templates, and what each stands for in the call:
\* read from the intent, the stack and the context of file template k
Variables(k) ==
    {Resolved("{{intent.name}}", intent.name),
     Resolved("{{intent.scale}}", intent.scale),
     Resolved("{{stack.description}}", stack.description),
     Resolved("{{stack.architecture}}", stack.architecture),
     Resolved("{{intent.requirements}}", join(intent.requirements, ",")),
     Resolved("{{intent.requirements.length}}",
              IF Len(intent.requirements) = 1 THEN "1" ELSE "4"),
     Unresolved("{{foo.bar}}"),
     Unresolved("{{nil.x}}"),
     IF stack.technologies.frontend # Undefined
     THEN Resolved("{{stack.technologies.frontend.framework}}",
                   stack.technologies.frontend.framework)
     ELSE Unresolved("{{stack.technologies.frontend.framework}}"),
     IF intent.constraints # Undefined
     THEN Resolved("{{intent.constraints.languages}}",
                   join(intent.constraints.languages.items, ","))
     ELSE Unresolved("{{intent.constraints.languages}}"),
     IF HasOverrides(k) THEN Resolved("{{nil}}", "null") ELSE Unresolved("{{nil}}"),
     IF HasOverrides(k) THEN Resolved("{{owner}}", "ops") ELSE Unresolved("{{owner}}")}

\* the variables of template k that stand outside every conditional block
OutsideBlocks(k) ==
    {v \in Variables(k) : includes(removeConditionals(TemplateOf(k), 1), v.token)}

\* file template k was rendered from a registered template and its file taken
Rendered(k) ==
    /\ TemplateOf(k) # ""
    /\ FilesAttempted
    /\ AcceptsFile(k)

BuiltInNames == {"readme", "gitignore", "docker-compose", "dockerfile"}

\* every file rendered from the template named readme has the text of the
\* caller's registration, or that of the built-in when there is none
ReadmeRendered ==
    \A k \in DOMAIN Files :
        (Files[k].template = "readme" /\ Rendered(k)) =>
            (Written(k) =
                 IF "readme" \in DOMAIN registrations
                 THEN "# " \o intent.name \o " by {{foo.bar}}"
                 ELSE "# " \o intent.name \o "\n" \o stack.description
                          \o "\n- **Pattern**: " \o stack.architecture
                          \o "\n- **Scale**: " \o intent.scale \o "\n"
                          \o join(intent.requirements, ",") \o "\n")

C22_SuccessIffNoErrors ==
    generated # NoValue => (generated.success <=> generated.errors = <<>>)

\* the creation of a directory failed
C22_Witness ==
    /\ generated # NoValue
    /\ ~generated.success
    /\ Len(generated.errors) = 1
    /\ StartsWithAt(generated.errors[1], 1, "Generation failed: ")

\* the file templates the file system takes and those it refuses, in the
\* order of stack.structure.files
AcceptedFiles == SelectSeq([k \in DOMAIN Files |-> k], LAMBDA k : AcceptsFile(k))
RefusedFiles == SelectSeq([k \in DOMAIN Files |-> k], LAMBDA k : ~AcceptsFile(k))

\* C23: once the directories are created, generate handles the file templates
\* one at a time in the order of stack.structure.files, and each ends in
\* exactly one of two ways: its full path is appended to filesCreated, or
\* exactly one error string that names its path is appended to errors.  A
\* failure neither stops the files after it from being attempted nor removes
\* files written before it.
C23_EachFileWrittenOrReported ==
    (generated # NoValue /\ FilesAttempted) =>
        /\ generated.filesCreated = [j \in 1..Len(AcceptedFiles) |-> FullPath(AcceptedFiles[j])]
        /\ Len(generated.errors) = Len(RefusedFiles)
        /\ \A j \in 1..Len(RefusedFiles) :
               StartsWithAt(generated.errors[j], 1,
                            "Failed to generate " \o Files[RefusedFiles[j]].path \o ": ")
        /\ \A j \in 1..Len(AcceptedFiles) : FullPath(AcceptedFiles[j]) \in DOMAIN disk.files

\* a file that fails between two files that are written
C23_Witness ==
    /\ generated # NoValue
    /\ Len(Files) = 3
    /\ generated.filesCreated = <<"out/.gitignore", "out/NOTES.md">>
    /\ generated.errors =
           <<"Failed to generate src: Error: EISDIR: illegal operation on a directory, open 'out/src'">>
    /\ DOMAIN disk.files = {"out/.gitignore", "out/NOTES.md"}

\* the directories of the call, the output directory first
DirectoryPaths ==
    <<OutputDir>> \o [k \in DOMAIN stack.structure.directories |->
                         OutputDir \o "/" \o stack.structure.directories[k]]

\* the positions of the directories that are missing and that the file system refuses
RefusedDirectories ==
    {k \in DOMAIN DirectoryPaths :
        DirectoryPaths[k] \in disk.denied /\ DirectoryPaths[k] \notin disk.dirs}

\* C24: generate is aborted exactly when the creation of the output directory
\* or of one of stack.structure.directories throws.  It then does not throw
\* to its caller: it returns success = false with the single error
\* 'Generation failed...', attempts no file template (filesCreated is empty,
\* no file is written) and directoriesCreated lists only directories that
\* were created before the failure.
C24_AbortOnlyOnDirectoryFailure ==
    generated # NoValue =>
        IF RefusedDirectories # {}
        THEN /\ ~generated.success
             /\ Len(generated.errors) = 1
             /\ StartsWithAt(generated.errors[1], 1, "Generation failed: ")
             /\ generated.filesCreated = <<>>
             /\ DOMAIN disk.files = {}
             /\ \A j \in DOMAIN generated.directoriesCreated :
                    /\ generated.directoriesCreated[j] \in disk.dirs
                    /\ \E k \in DOMAIN DirectoryPaths :
                           /\ DirectoryPaths[k] = generated.directoriesCreated[j]
                           /\ \A f \in RefusedDirectories : k < f
        ELSE FilesAttempted

\* the third directory is refused after two were created
C24_Witness ==
    /\ generated # NoValue
    /\ generated.errors =
           <<"Generation failed: Error: EACCES: permission denied, mkdir 'out/tests'">>
    /\ generated.directoriesCreated = <<"out", "out/src">>
    /\ generated.filesCreated = <<>>
    /\ ~generated.success

\* C28: a template registered with empty text is treated as not registered:
\* the rendering of a file template that names it is the placeholder
\* "# Template '<name>' not found" and not the empty text, so a registered
\* text is used only if it is not empty.
C28_EmptyTemplateIsNotFound ==
    generated # NoValue =>
        \A k \in DOMAIN Files :
            (/\ Files[k].template \in DOMAIN registrations
             /\ registrations[Files[k].template] = ""
             /\ FilesAttempted
             /\ AcceptsFile(k))
            => /\ WrittenAs(k, "# Template '" \o Files[k].template \o "' not found\n")
               /\ NoErrorFor(k)

\* the built-in readme was registered again with empty text
C28_Witness ==
    /\ generated # NoValue
    /\ "readme" \in DOMAIN registrations
    /\ templateRegistry["readme"] = ""
    /\ \E k \in DOMAIN Files :
           /\ Files[k].template = "readme"
           /\ WrittenAs(k, "# Template 'readme' not found\n")

(***************************************************************************)
(* Properties of the default intent.                                       *)
(***************************************************************************)
\* C27: for every project name, the default intent of createDefaultIntent
\* (scale solo, the single requirement 'Build a functional application') is
\* classified by selectStack as serverless, with the stack name
\* 'solo-serverless', and not as the monolith of the solo scale, because the
\* requirement matches /function/i; the stack has a backend and none of the
\* monolith directories.
C27_DefaultIntentIsServerless ==
    (/\ stack # NoValue
     /\ intent.scale = "solo"
     /\ intent.requirements = <<"Build a functional application">>)
    => /\ stack.architecture = "serverless"
       /\ stack.name = "solo-serverless"
       /\ stack.technologies.backend # Undefined
       /\ stack.structure.directories = <<"src", "tests", "docs">>

C27_Witness ==
    /\ stack # NoValue
    /\ intent.name = "blog"
    /\ intent.scale = "solo"
    /\ intent.requirements = <<"Build a functional application">>
    /\ intent.constraints = Undefined
    /\ stack.name = "solo-serverless"

(***************************************************************************)
(* Properties of the parsers.                                              *)
(***************************************************************************)
\* parseYAML or parseJSON returned a value
IntentFileParsed ==
    /\ parsed # NoValue
    /\ parsed.by \in {"parseYAML", "parseJSON"}
    /\ ~parsed.call.threw

\* C25: parseJSON and parseYAML supply only validated Intents: every value
\* they return has a non-blank string name, a scale among solo, startup, team
\* and enterprise, and a non-empty requirements sequence whose every element
\* is a non-empty string; a decoded value that breaks one of these makes the
\* parse throw.
C25_ParsersReturnValidIntents ==
    IntentFileParsed =>
        LET data == parsed.call.value.fields
        IN  /\ IsString(data.name) /\ trim(data.name.value) # ""
            /\ IsString(data.scale)
            /\ data.scale.value \in {"solo", "startup", "team", "enterprise"}
            /\ data.requirements.type = "array"
            /\ Len(data.requirements.items) >= 1
            /\ \A k \in DOMAIN data.requirements.items :
                   /\ IsString(data.requirements.items[k])
                   /\ data.requirements.items[k].value # ""

\* parseNaturalLanguage returned
DescriptionParsed == parsed # NoValue /\ parsed.by = "parseNaturalLanguage"

\* the description contains the phrase, in any case
Says(phrase) == includes(toLowerCase(document), phrase)

\* C29: parseNaturalLanguage takes the scale of the first rule that matches,
\* in the order enterprise ('enterprise' or 'large scale'), team ('team' or
\* 'multiple developers'), startup ('startup' or 'small team'), else solo.
\* So a description that contains 'small team' is team or enterprise and
\* never startup, and startup comes only from the word 'startup' in a text
\* with no enterprise or team phrase.
C29_ScaleByFirstRule ==
    DescriptionParsed =>
        LET scale == parsed.call.value.scale
        IN  /\ scale =
                   CASE Says("enterprise") \/ Says("large scale") -> "enterprise"
                     [] Says("team") \/ Says("multiple developers") -> "team"
                     [] Says("startup") \/ Says("small team") -> "startup"
                     [] OTHER -> "solo"
            /\ Says("small team") => scale \in {"team", "enterprise"}
            /\ scale = "startup" =>
                   /\ Says("startup")
                   /\ ~Says("enterprise") /\ ~Says("large scale")
                   /\ ~Says("team") /\ ~Says("multiple developers")

C29_Witness ==
    /\ DescriptionParsed
    /\ Says("small team")
    /\ Says("startup")
    /\ parsed.call.value.scale = "team"

\* C30: for every description parseNaturalLanguage returns an Intent that
\* the boolean validateIntent accepts: the name is not empty ('my-project'
\* when the description names none), the scale is one of the four levels and
\* requirements has at least one element, the trimmed description itself
\* when it contains no keyword; a requirement is blank only when the
\* description is blank.
C30_DescriptionsGiveValidIntents ==
    DescriptionParsed =>
        LET i == parsed.call.value
        IN  /\ validateIntentBoolean(IntentObject(i))
            /\ i.name # ""
            /\ (~Says("called") /\ ~Says("named") /\ ~Says("for")) => i.name = "my-project"
            /\ i.scale \in {"solo", "startup", "team", "enterprise"}
            /\ Len(i.requirements) >= 1
            /\ (\A k \in DOMAIN RequirementKeywords : ~Says(RequirementKeywords[k]))
                   => i.requirements = <<trim(document)>>
            /\ \A k \in DOMAIN i.requirements :
                   trim(i.requirements[k]) = "" => trim(document) = ""

\* a description without a keyword, with white space at its end
C30_Witness ==
    /\ DescriptionParsed
    /\ document = "Platform for  startup  "
    /\ parsed.call.value.name = "startup"
    /\ parsed.call.value.requirements = <<"Platform for  startup">>

(***************************************************************************)
(* Properties of the command line.                                         *)
(***************************************************************************)
\* the command has ended
Exited == exitCode # NoValue

\* the command was given an intent file whose extension is none of .yaml, .yml, .json
UnsupportedFormat ==
    /\ invocation.command \in {"generate", "validate"}
    /\ invocation.intentFile \in DOMAIN disk.files
    /\ toLowerCase(extname(invocation.intentFile)) \notin {".yaml", ".yml", ".json"}

\* init left the intent, in YAML, in its output file
InitFileWritten ==
    /\ invocation.output \in DOMAIN disk.files
    /\ disk.files[invocation.output] = toYAML(intent)

\* an error of the command: one that was thrown, or one that the generator recorded
ErrorOccurred ==
    \/ parsed # NoValue /\ parsed.call.threw
    \/ generated # NoValue /\ generated.errors # <<>>
    \/ invocation.command = "init" /\ ~InitFileWritten

\* nothing but the intent files is on the disk
NothingGenerated ==
    /\ stack = NoValue
    /\ generated = NoValue
    /\ DOMAIN disk.files = IntentFiles
    /\ disk.dirs = {"specs"}

\* C26: a command exits with code 0 when it succeeds and with code 1 when an
\* error occurred; generate and validate, given a file whose extension is
\* not .yaml, .yml or .json, fail with the unsupported-format error, exit
\* with code 1, and select no stack and write no files.
C26_ExitCodeTellsErrors ==
    Exited =>
        /\ exitCode = Num(IF ErrorOccurred THEN 1 ELSE 0)
        /\ UnsupportedFormat =>
              /\ exitCode = Num(1)
              /\ parsed.by = "extname"
              /\ parsed.call.threw
              /\ SubSeq(parsed.call.message, 1, 23) = "Unsupported file format"
              /\ NothingGenerated

====
